---- MODULE Spec2Model ----
(***************************************************************************)
(* A model of the trading core of lavumi/crypto-quant: the wallet          *)
(* (internal/trading/wallet), the portfolio (internal/trading/portfolio)   *)
(* and the backtest engine (internal/backtest).                            *)
(*                                                                         *)
(* Amounts, prices and quantities are float64 in the source.  They are     *)
(* modelled in exact arithmetic: the inputs are integers, and the values   *)
(* the code derives from them by multiplying by a rate or by dividing      *)
(* (fees, average entry prices, equity) are rationals in lowest terms.     *)
(* The rounding of float64 is not modelled.                                *)
(***************************************************************************)
EXTENDS Integers, Sequences, FiniteSets, TLC

VARIABLES
    balances,     \* wallet.Manager.balances : asset -> Balance
    walletOp,     \* the last wallet call and the error it returned
    walletArgs,   \* SpecWalletCall: the arguments of that call
    walletPrev,   \* SpecWalletCall: balances before that call
    mu,           \* wallet.Manager.mu : who holds the sync.RWMutex
    writerPc,     \* the mutating goroutine's position in Transfer
    writerArgs,   \* the arguments of its Transfer
    mutations,    \* number of Transfer calls that have returned
    readerPc,     \* the reading goroutine's position
    readerTodo,   \* the balance fields its caller has still to read
    readerSeen,   \* the values it has read, per asset and field
    boundary,     \* the wallet states that existed between two complete
                  \* mutations since the reader took its lock
    positions,    \* portfolio.Manager.positions : symbol -> Position
    portfolioOp,  \* the last portfolio call and its arguments
    portfolioPrev,\* positions before that call
    updates,      \* number of portfolio calls made
    engine,       \* backtest.Engine: initialBalance, commission, balance,
                  \* position, trades, equity
    candles,      \* the candles given to Run
    enginePc,     \* where Run is: "new", "loop", "returned", "failed"
    nextCandle,   \* index of the candle the loop of Run is about to process
    offered,      \* the calls of strategy.OnCandle: the candle passed and the
                  \* number of equity points recorded at that moment
    lastSignal,   \* what OnCandle returned for the last candle processed
    enginePrev,   \* the engine before the last candle was processed
    logged,       \* candles for which "Failed to execute signal" was logged
    runErr,       \* the error Run returned, with its candle index
    result,       \* the *Result each Run on the engine returned, in order:
                  \* <<>> when none has returned one
    cancelled,    \* the ctx given to Run: <<>> while it is live, <<k>> once
                  \* it is cancelled, k candles having been processed by then
    strategy,     \* a reference strategy: kind, parameters, internal state
    fed,          \* the candles given to its OnCandle since it was made or
                  \* initialized last
    emitted,      \* what OnCandle returned for each of them
    calls,        \* number of OnCandle calls made on it
    lastCall,     \* the last call made on it
    beforeInit,   \* <<s>> when the last call was Initialize, s being the
                  \* strategy as it was then; else <<>>
    collect,      \* a CollectHistorical call: its arguments, currentStart,
                  \* totalCandles, where it is and the error it returned
    provided,     \* number of candles the provider holds, from GridStart on
    store,        \* the candle tables: table name |-> bag of rows
    requests,     \* the klines requests of this call: start, end, limit, and
                  \* the klines returned (their numbers lo..hi)
    batch,        \* the write to the store under way or last made
    got,          \* <<r>>, r the last result of a GetRange; else <<>>
    exchange,     \* the VirtualExchange of an order.Service: prices, closed,
                  \* and whether its simulatePriceUpdates goroutine runs
    orders,       \* the *domain.Order each caller passes to PlaceOrder
    placing       \* each caller's PlaceOrder call: where it is, the error
                  \* it returned, what it has locked and not released

callVars == <<walletOp, walletArgs, walletPrev>>
concVars == <<mu, writerPc, writerArgs, mutations,
              readerPc, readerTodo, readerSeen, boundary>>

portfolioVars == <<positions, portfolioOp, portfolioPrev, updates>>

engineVars == <<engine, candles, enginePc, nextCandle, offered, lastSignal,
                enginePrev, logged, runErr, result, cancelled>>

strategyVars == <<strategy, fed, emitted, calls, lastCall, beforeInit>>

collectVars == <<collect, provided, store, requests, batch, got>>

orderVars == <<exchange, orders, placing>>

notWallet == <<portfolioVars, engineVars, strategyVars, collectVars, orderVars>>
notPortfolio == <<balances, callVars, concVars, engineVars, strategyVars, collectVars,
                  orderVars>>
notEngine == <<balances, callVars, concVars, portfolioVars, strategyVars, collectVars,
               orderVars>>
notStrategy == <<balances, callVars, concVars, portfolioVars, engineVars, collectVars,
                 orderVars>>
notCollect == <<balances, callVars, concVars, portfolioVars, engineVars, strategyVars,
                orderVars>>
notOrder == <<callVars, concVars, portfolioOp, portfolioPrev, updates, engineVars,
              strategyVars, collectVars>>

vars == <<balances, callVars, concVars, portfolioVars, engineVars, strategyVars,
          collectVars, orderVars>>

----------------------------------------------------------------------------
(* Bounds *)

MaxAmount == 1      \* wallet calls pass amounts in -MaxAmount..MaxAmount
MaxBal == 2         \* balance fields are kept within -MaxBal..MaxBal

MaxTransfers == 1    \* SpecWalletConc: Transfer calls the writer makes
MaxDelta == 3        \* UpdatePosition is given quantities in -MaxDelta..MaxDelta
MaxUpdates == 3      \* portfolio calls in a run
MaxBatch == 2        \* candles in a batch written to the store
MaxExtra == 1        \* candles the provider holds after the requested window
MaxFed == 5          \* OnCandle calls made on a strategy
MaxGap == 3          \* open times of successive candles are 1..MaxGap apart
MaxTrades == 4       \* candles in a run whose statistics are computed
MaxCandles == 3      \* candles in a run
MaxSignalQty == 2    \* a signal asks for a quantity in 1..MaxSignalQty
MaxCallAmount == 3  \* SpecWalletCall passes amounts in -MaxCallAmount..MaxCallAmount
MaxOrderQty == 2    \* an order asks for a quantity in 0..MaxOrderQty

Assets == {"USDT", "BTC"}
Amounts == (0 - MaxAmount)..MaxAmount
CallAmounts == (0 - MaxCallAmount)..MaxCallAmount

----------------------------------------------------------------------------
(* Exact arithmetic for quotients: a rational is [n, d] in lowest terms,    *)
(* d > 0.                                                                   *)

Abs(x) == IF x < 0 THEN 0 - x ELSE x

RECURSIVE GCD(_, _)
GCD(a, b) == IF b = 0 THEN a ELSE GCD(b, a % b)

Rat(n, d) ==
    LET g == GCD(Abs(n), Abs(d))
        s == IF d < 0 THEN 0 - 1 ELSE 1
    IN  [n |-> (s * n) \div g, d |-> (s * d) \div g]

RInt(i) == [n |-> i, d |-> 1]
RAdd(a, b) == Rat(a.n * b.d + b.n * a.d, a.d * b.d)
RSub(a, b) == Rat(a.n * b.d - b.n * a.d, a.d * b.d)
RMul(a, b) == Rat(a.n * b.n, a.d * b.d)
RDiv(a, b) == Rat(a.n * b.d, a.d * b.n)
RZero == RInt(0)
RLess(a, b) == a.n * b.d < b.n * a.d
RLeq(a, b) == a.n * b.d <= b.n * a.d

----------------------------------------------------------------------------
(* portfolio.Manager *)

Symbols == {"BTCUSDT", "ETHUSDT"}
Prices == {100, 120}
Deltas == (0 - MaxDelta)..MaxDelta

\* the record UpdatePosition creates for a symbol it has not seen
NewPosition(symbol, price) ==
    [Symbol |-> symbol, Quantity |-> 0, AvgEntryPrice |-> RZero,
     CurrentPrice |-> price, UnrealizedPnL |-> RZero, RealizedPnL |-> RZero]

PortfolioNewManager == <<>>

\* oldQty == 0: opening new position
OpenPosition(pos, quantity, price) ==
    [pos EXCEPT !.AvgEntryPrice = RInt(price), !.Quantity = pos.Quantity + quantity]

\* takes the execution price as the new average
AddToPosition_LastPrice(pos, quantity, price) ==
    [pos EXCEPT !.AvgEntryPrice = RInt(price), !.Quantity = pos.Quantity + quantity]

\* adding to existing position
AddToPosition(pos, quantity, price) ==
    LET oldQty == pos.Quantity
        newQty == oldQty + quantity
        totalCost == RAdd(RMul(pos.AvgEntryPrice, RInt(oldQty)), RInt(price * quantity))
    IN  [pos EXCEPT !.AvgEntryPrice = RDiv(totalCost, RInt(newQty)),
                    !.Quantity = newQty]

ClosePosition_KeepsUnrealized(pos, quantity, price) ==
    LET realizedPnL == RMul(RSub(RInt(price), pos.AvgEntryPrice), RInt(0 - quantity))
    IN  [pos EXCEPT !.RealizedPnL = RAdd(@, realizedPnL),
                    !.Quantity = 0]

ClosePosition_OnTradedSign(pos, quantity, price) ==
    LET realizedPnL == RMul(RSub(RInt(price), pos.AvgEntryPrice), RInt(quantity))
    IN  [pos EXCEPT !.RealizedPnL = RAdd(@, realizedPnL),
                    !.Quantity = 0,
                    !.UnrealizedPnL = RZero]

\* newQty == 0: closing position - realize PnL
ClosePosition(pos, quantity, price) ==
    LET realizedPnL == RMul(RSub(RInt(price), pos.AvgEntryPrice), RInt(0 - quantity))
    IN  [pos EXCEPT !.RealizedPnL = RAdd(@, realizedPnL),
                    !.Quantity = 0,
                    !.UnrealizedPnL = RZero]

\* partial close
PartialClose(pos, quantity, price) ==
    LET closedQty == 0 - quantity
        realizedPnL == RMul(RSub(RInt(price), pos.AvgEntryPrice), RInt(closedQty))
    IN  [pos EXCEPT !.RealizedPnL = RAdd(@, realizedPnL),
                    !.Quantity = pos.Quantity + quantity]

\* realizes on the traded quantity, as a partial close does
ReversePosition_OnTradedQty(pos, quantity, price) ==
    LET closedQty == 0 - quantity
        realizedPnL == RMul(RSub(RInt(price), pos.AvgEntryPrice), RInt(closedQty))
    IN  [pos EXCEPT !.RealizedPnL = RAdd(@, realizedPnL),
                    !.AvgEntryPrice = RInt(price),
                    !.Quantity = pos.Quantity + quantity]

\* reversing position
ReversePosition(pos, quantity, price) ==
    LET closedQty == pos.Quantity
        realizedPnL == RMul(RSub(RInt(price), pos.AvgEntryPrice), RInt(closedQty))
    IN  [pos EXCEPT !.RealizedPnL = RAdd(@, realizedPnL),
                    !.AvgEntryPrice = RInt(price),
                    !.Quantity = pos.Quantity + quantity]

UpdatePosition(ps, symbol, quantity, price) ==
    LET pos == IF symbol \in DOMAIN ps THEN ps[symbol] ELSE NewPosition(symbol, price)
        oldQty == pos.Quantity
        newQty == oldQty + quantity
        new ==
          IF oldQty = 0 THEN OpenPosition(pos, quantity, price)
          ELSE IF (oldQty > 0 /\ quantity > 0) \/ (oldQty < 0 /\ quantity < 0)
          THEN AddToPosition(pos, quantity, price)
          ELSE IF newQty = 0 THEN ClosePosition(pos, quantity, price)
          ELSE IF (oldQty > 0 /\ newQty > 0) \/ (oldQty < 0 /\ newQty < 0)
          THEN PartialClose(pos, quantity, price)
          ELSE ReversePosition(pos, quantity, price)
    IN  [s \in DOMAIN ps \cup {symbol} |->
            IF s = symbol THEN [new EXCEPT !.CurrentPrice = price] ELSE ps[s]]

UpdatePrices(ps, prices) ==
    [s \in DOMAIN ps |->
        IF ps[s].Quantity = 0 THEN ps[s]
        ELSE IF s \in DOMAIN prices
        THEN [ps[s] EXCEPT !.CurrentPrice = prices[s],
                           !.UnrealizedPnL =
                               RMul(RSub(RInt(prices[s]), ps[s].AvgEntryPrice),
                                    RInt(ps[s].Quantity))]
        ELSE ps[s]]

PortfolioCall(name, symbol, quantity, price) ==
    [op |-> name, symbol |-> symbol, quantity |-> quantity, price |-> price]

InitPortfolio ==
    /\ positions = PortfolioNewManager
    /\ portfolioOp = PortfolioCall("NewManager", "", 0, 0)
    /\ portfolioPrev = PortfolioNewManager
    /\ updates = 0

DoUpdatePosition ==
    /\ updates < MaxUpdates
    /\ \E symbol \in Symbols, quantity \in Deltas, price \in Prices :
          /\ positions' = UpdatePosition(positions, symbol, quantity, price)
          /\ portfolioOp' = PortfolioCall("UpdatePosition", symbol, quantity, price)
    /\ portfolioPrev' = positions
    /\ updates' = updates + 1
    /\ UNCHANGED notPortfolio

DoUpdatePrices ==
    /\ updates < MaxUpdates
    /\ \E quoted \in SUBSET Symbols :
         \E prices \in [quoted -> Prices] :
            positions' = UpdatePrices(positions, prices)
    /\ portfolioOp' = PortfolioCall("UpdatePrices", "", 0, 0)
    /\ portfolioPrev' = positions
    /\ updates' = updates + 1
    /\ UNCHANGED notPortfolio

NextPortfolio == DoUpdatePosition \/ DoUpdatePrices

----------------------------------------------------------------------------
(* wallet.Manager *)

NoErr == "nil"
ErrNotFound == "balance not found"
ErrInsufficientFree == "insufficient free balance"
ErrInsufficientLocked == "insufficient locked balance"

Balance(asset, free, locked, total) ==
    [Asset |-> asset, Free |-> free, Locked |-> locked, Total |-> total]

\* NewManager: one record per entry of initialBalances, all of it free.
NewManager(initialBalances) ==
    [asset \in DOMAIN initialBalances |->
        Balance(asset, initialBalances[asset], 0, initialBalances[asset])]

\* m.balances[asset] = &Balance{...}
PutBalance(b, asset, rec) ==
    [a \in DOMAIN b \cup {asset} |-> IF a = asset THEN rec ELSE b[a]]

Result(b, err) == [balances |-> b, err |-> err]

Lock_NoFreeCheck(b, asset, amount) ==
    IF asset \notin DOMAIN b THEN Result(b, ErrNotFound)
    ELSE Result([b EXCEPT ![asset].Free = @ - amount,
                          ![asset].Locked = @ + amount], NoErr)

Lock(b, asset, amount) ==
    IF asset \notin DOMAIN b THEN Result(b, ErrNotFound)
    ELSE IF b[asset].Free < amount THEN Result(b, ErrInsufficientFree)
    ELSE Result([b EXCEPT ![asset].Free = @ - amount,
                          ![asset].Locked = @ + amount], NoErr)

Unlock(b, asset, amount) ==
    IF asset \notin DOMAIN b THEN Result(b, ErrNotFound)
    ELSE IF b[asset].Locked < amount THEN Result(b, ErrInsufficientLocked)
    ELSE Result([b EXCEPT ![asset].Locked = @ - amount,
                          ![asset].Free = @ + amount], NoErr)

Deduct_StaleTotal(b, asset, amount) ==
    IF asset \notin DOMAIN b THEN Result(b, ErrNotFound)
    ELSE IF b[asset].Locked < amount THEN Result(b, ErrInsufficientLocked)
    ELSE Result([b EXCEPT ![asset].Locked = @ - amount], NoErr)

Deduct(b, asset, amount) ==
    IF asset \notin DOMAIN b THEN Result(b, ErrNotFound)
    ELSE IF b[asset].Locked < amount THEN Result(b, ErrInsufficientLocked)
    ELSE LET locked == b[asset].Locked - amount
         IN  Result([b EXCEPT ![asset].Locked = locked,
                              ![asset].Total = b[asset].Free + locked], NoErr)

Credit(b, asset, amount) ==
    IF asset \notin DOMAIN b
    THEN Result(PutBalance(b, asset, Balance(asset, amount, 0, amount)), NoErr)
    ELSE LET free == b[asset].Free + amount
         IN  Result([b EXCEPT ![asset].Free = free,
                              ![asset].Total = free + b[asset].Locked], NoErr)

\* credits the destination before it validates the source
Transfer_CreditFirst(b, fromAsset, fromAmount, toAsset, toAmount) ==
    LET b0 == Credit(b, toAsset, toAmount).balances
    IN  IF fromAsset \notin DOMAIN b THEN Result(b0, ErrNotFound)
        ELSE IF b[fromAsset].Locked < fromAmount
             THEN Result(b0, ErrInsufficientLocked)
             ELSE LET locked == b0[fromAsset].Locked - fromAmount
                  IN  Result([b0 EXCEPT ![fromAsset].Locked = locked,
                                        ![fromAsset].Total = b0[fromAsset].Free + locked],
                             NoErr)

Transfer(b, fromAsset, fromAmount, toAsset, toAmount) ==
    IF fromAsset \notin DOMAIN b THEN Result(b, ErrNotFound)
    ELSE IF b[fromAsset].Locked < fromAmount THEN Result(b, ErrInsufficientLocked)
    ELSE LET locked == b[fromAsset].Locked - fromAmount
             b1 == [b EXCEPT ![fromAsset].Locked = locked,
                             ![fromAsset].Total = b[fromAsset].Free + locked]
         IN  IF toAsset \notin DOMAIN b1
             THEN Result(PutBalance(b1, toAsset,
                                    Balance(toAsset, toAmount, 0, toAmount)), NoErr)
             ELSE LET free == b1[toAsset].Free + toAmount
                  IN  Result([b1 EXCEPT ![toAsset].Free = free,
                                        ![toAsset].Total = free + b1[toAsset].Locked],
                             NoErr)

HasSufficientBalance(b, asset, amount) ==
    IF asset \notin DOMAIN b THEN FALSE ELSE b[asset].Free >= amount

----------------------------------------------------------------------------
(* order.Service over a wallet, a portfolio and the VirtualExchange.        *)
(* Amounts of the quote asset are counted in thousandths of a USDT, which   *)
(* makes the factors 1.001 and 0.001 of the code exact: x USDT is the       *)
(* integer 1000 * x. Prices are whole USDT for one unit of the base asset,  *)
(* and quantities of the base asset are whole units.                        *)

OrderSideBuy == "BUY"
OrderSideSell == "SELL"
OrderTypeMarket == "MARKET"
OrderTypeLimit == "LIMIT"
OrderStatusNew == "NEW"
OrderStatusFilled == "FILLED"
OrderStatusCancelled == "CANCELLED"
OrderStatusRejected == "REJECTED"

ErrValidation == "order validation failed"
ErrPlace == "failed to place order"
ErrSettle == "failed to settle order"

\* the callers of PlaceOrder, one goroutine each
Goroutines == 1..2

quoteAsset == "USDT"

\* order.Symbol[:len(order.Symbol)-len(quoteAsset)]
baseAsset(symbol) == IF symbol = "BTCUSDT" THEN "BTC" ELSE ""

\* a *domain.Order; stored: the exchange holds it in ve.orders
Order(symbol, side, type, quantity, price) ==
    [Symbol |-> symbol, Side |-> side, Type |-> type, Quantity |-> quantity,
     Price |-> price, Status |-> "", FilledQty |-> 0, AvgPrice |-> 0,
     stored |-> FALSE]

NoOrder == Order("", "", "", 0, 0)

NewVirtualExchange(initialPrices) ==
    [prices |-> initialPrices, closed |-> FALSE, ticking |-> TRUE]

fillOrder(order, price) ==
    [order EXCEPT !.Status = OrderStatusFilled,
                  !.FilledQty = order.Quantity,
                  !.AvgPrice = price]

\* VirtualExchange.PlaceOrder
ExchangePlaceOrder(ve, order) ==
    IF ve.closed THEN [order |-> order, err |-> "exchange is closed"]
    ELSE IF order.Quantity <= 0
    THEN [order |-> [order EXCEPT !.Status = OrderStatusRejected],
          err |-> "invalid quantity"]
    ELSE IF order.Symbol \notin DOMAIN ve.prices
    THEN [order |-> [order EXCEPT !.Status = OrderStatusRejected],
          err |-> "symbol not found"]
    ELSE LET new == [order EXCEPT !.Status = OrderStatusNew, !.stored = TRUE]
         IN  [order |-> IF order.Type = OrderTypeMarket
                        THEN fillOrder(new, ve.prices[order.Symbol])
                        ELSE new,
              err |-> NoErr]

\* VirtualExchange.CancelOrder
ExchangeCancelOrder(order) ==
    IF ~order.stored THEN [order |-> order, err |-> "order not found"]
    ELSE IF order.Status # OrderStatusNew
    THEN [order |-> order, err |-> "cannot cancel order"]
    ELSE [order |-> [order EXCEPT !.Status = OrderStatusCancelled], err |-> NoErr]

shouldFill(ve, order) ==
    /\ order.stored
    /\ order.Status = OrderStatusNew /\ order.Type = OrderTypeLimit
    /\ order.Symbol \in DOMAIN ve.prices
    /\ \/ order.Side = OrderSideBuy /\ ve.prices[order.Symbol] <= order.Price
       \/ order.Side = OrderSideSell /\ ve.prices[order.Symbol] >= order.Price

checkLimitOrders(ve, os) ==
    [g \in DOMAIN os |->
        IF shouldFill(ve, os[g]) THEN fillOrder(os[g], os[g].Price) ELSE os[g]]

\* what validateAndLockOrder locks: price * quantity * 1.001 of the quote
\* asset for a Buy, the quantity of the base asset for a Sell
LockedAsset(order) ==
    IF order.Side = OrderSideBuy THEN quoteAsset ELSE baseAsset(order.Symbol)

LockedAmount(order) ==
    IF order.Side = OrderSideBuy THEN order.Price * order.Quantity * 1001
    ELSE order.Quantity

\* unlocks the price without the 0.1% added for fees
unlockOrderBalance_NoFee(b, order) ==
    IF order.Side = OrderSideBuy
    THEN Unlock(b, quoteAsset, order.Price * order.Quantity * 1000).balances
    ELSE Unlock(b, baseAsset(order.Symbol), order.Quantity).balances

\* the error of Unlock is not looked at
unlockOrderBalance(b, order) ==
    IF order.Side = OrderSideBuy
    THEN Unlock(b, quoteAsset, order.Price * order.Quantity * 1001).balances
    ELSE Unlock(b, baseAsset(order.Symbol), order.Quantity).balances

\* settleOrder: fee := order.AvgPrice * order.FilledQty * 0.001
Fee(order) == order.AvgPrice * order.FilledQty

\* settleOrder: quoteAmount := order.AvgPrice * order.FilledQty
QuoteAmount(order) == order.AvgPrice * order.FilledQty * 1000

\* settleOrder: the Transfer of a filled order
SettleTransfer(b, order) ==
    IF order.Side = OrderSideBuy
    THEN Transfer(b, quoteAsset, order.Price * order.Quantity * 1001,
                  baseAsset(order.Symbol), order.FilledQty)
    ELSE Transfer(b, baseAsset(order.Symbol), order.FilledQty,
                  quoteAsset, QuoteAmount(order) - Fee(order))

\* settleOrder, a Buy: s.wallet.Credit(quoteAsset, -(fee))
SettleFee(b, order) == Credit(b, quoteAsset, 0 - Fee(order))

\* settleOrder: s.portfolio.UpdatePosition
SettlePosition(ps, order) ==
    UpdatePosition(ps, order.Symbol,
                   IF order.Side = OrderSideBuy THEN order.FilledQty
                   ELSE 0 - order.FilledQty,
                   order.AvgPrice)

\* a caller that has not called PlaceOrder; held is what the call has
\* locked and neither unlocked nor transferred, seen the order as the
\* call read it after the exchange returned it, before the wallet when
\* the call was made
NotPlacing ==
    [pc |-> "idle", err |-> NoErr, held |-> 0, seen |-> NoOrder, before |-> <<>>]

\* an order.Service that is not used
NoOrders ==
    /\ exchange = NewVirtualExchange(<<>>)
    /\ orders = [g \in Goroutines |-> NoOrder]
    /\ placing = [g \in Goroutines |-> NotPlacing]

----------------------------------------------------------------------------
(* backtest.Engine *)

BUY == "BUY"
SELL == "SELL"
ErrInsufficientBalance == "insufficient balance"
ErrInsufficientPosition == "insufficient position"
ErrUnknownSide == "unknown order side"
ErrStrategy == "strategy error"
ErrInitialize == "failed to initialize strategy"

Candle(openTime, close) == [OpenTime |-> openTime, Close |-> close]

Signal(action, quantity, price) ==
    [Action |-> action, Quantity |-> quantity, Price |-> price]

\* OnCandle returned no signal
NoSignal == Signal("", 0, 0)

Trade(timestamp, side, price, quantity, fee, balance, position) ==
    [Timestamp |-> timestamp, Side |-> side, Price |-> price, Quantity |-> quantity,
     Fee |-> fee, Balance |-> balance, Position |-> position]

EquityPoint(timestamp, equity, price) ==
    [Timestamp |-> timestamp, Equity |-> equity, Price |-> price]

NewEngine(cfg) ==
    [initialBalance |-> cfg.InitialBalance,
     commission |-> cfg.Commission,
     balance |-> cfg.InitialBalance,
     position |-> 0,
     trades |-> <<>>,
     equity |-> <<>>]

Executed(e, err) == [e |-> e, err |-> err]

executeBuy_NoBalanceCheck(e, timestamp, price, quantity) ==
    LET cost == RInt(price * quantity)
        fee == RMul(cost, e.commission)
        totalCost == RAdd(cost, fee)
        balance == RSub(e.balance, totalCost)
        position == e.position + quantity
    IN  Executed([e EXCEPT !.balance = balance,
                           !.position = position,
                           !.trades = Append(@, Trade(timestamp, BUY, price, quantity,
                                                      fee, balance, position))],
                 NoErr)

executeBuy(e, timestamp, price, quantity) ==
    LET cost == RInt(price * quantity)
        fee == RMul(cost, e.commission)
        totalCost == RAdd(cost, fee)
    IN  IF RLess(e.balance, totalCost)
        THEN Executed(e, ErrInsufficientBalance)
        ELSE LET balance == RSub(e.balance, totalCost)
                 position == e.position + quantity
             IN  Executed([e EXCEPT !.balance = balance,
                                    !.position = position,
                                    !.trades = Append(@, Trade(timestamp, BUY, price,
                                                               quantity, fee, balance,
                                                               position))],
                          NoErr)

executeSell_FeeNotCharged(e, timestamp, price, quantity) ==
    IF quantity > e.position
    THEN Executed(e, ErrInsufficientPosition)
    ELSE LET revenue == RInt(price * quantity)
             fee == RMul(revenue, e.commission)
             balance == RAdd(e.balance, revenue)
             position == e.position - quantity
         IN  Executed([e EXCEPT !.balance = balance,
                                !.position = position,
                                !.trades = Append(@, Trade(timestamp, SELL, price,
                                                           quantity, fee, balance,
                                                           position))],
                      NoErr)

executeSell(e, timestamp, price, quantity) ==
    IF quantity > e.position
    THEN Executed(e, ErrInsufficientPosition)
    ELSE LET revenue == RInt(price * quantity)
             fee == RMul(revenue, e.commission)
             netRevenue == RSub(revenue, fee)
             balance == RAdd(e.balance, netRevenue)
             position == e.position - quantity
         IN  Executed([e EXCEPT !.balance = balance,
                                !.position = position,
                                !.trades = Append(@, Trade(timestamp, SELL, price,
                                                           quantity, fee, balance,
                                                           position))],
                      NoErr)

\* the price a signal is settled at: its own, or the candle's close
ResolvePrice(candle, signal) ==
    IF signal.Price = 0 THEN candle.Close ELSE signal.Price

executeSignal(e, candle, signal) ==
    LET price == ResolvePrice(candle, signal)
    IN  IF signal.Action = BUY
        THEN executeBuy(e, candle.OpenTime, price, signal.Quantity)
        ELSE IF signal.Action = SELL
        THEN executeSell(e, candle.OpenTime, price, signal.Quantity)
        ELSE Executed(e, ErrUnknownSide)

calculateEquity_BalanceOnly(e, currentPrice) == e.balance

calculateEquity(e, currentPrice) ==
    RAdd(e.balance, RInt(e.position * currentPrice))

\* the body of the loop of Run once OnCandle has returned without error:
\* execute the signal if there is one, then record the equity
ProcessCandle(e, candle, signal) ==
    LET x == IF signal # NoSignal THEN executeSignal(e, candle, signal)
             ELSE Executed(e, NoErr)
    IN  Executed([x.e EXCEPT !.equity =
                     Append(@, EquityPoint(candle.OpenTime,
                                           calculateEquity(x.e, candle.Close),
                                           candle.Close))],
                 x.err)

\* counts only the round trips that won
calculateTradeStats_WinsOnly(trades) ==
    LET RECURSIVE Walk(_, _)
        Walk(k, st) ==
            IF k > Len(trades) THEN st
            ELSE LET trade == trades[k]
                 IN  Walk(k + 1,
                          IF trade.Side = BUY
                          THEN [st EXCEPT !.buyPrice = trade.Price,
                                          !.buyQty = trade.Quantity]
                          ELSE IF trade.Side = SELL /\ st.buyPrice > 0
                          THEN LET pnl == (trade.Price - st.buyPrice) * st.buyQty
                               IN  [buyPrice |-> 0, buyQty |-> 0,
                                    wins |-> st.wins + (IF pnl > 0 THEN 1 ELSE 0),
                                    losses |-> st.losses]
                          ELSE st)
        st0 == [buyPrice |-> 0, buyQty |-> 0, wins |-> 0, losses |-> 0]
        end == IF Len(trades) < 2 THEN st0 ELSE Walk(1, st0)
    IN  [WinningTrades |-> end.wins,
         LosingTrades |-> end.losses,
         WinRate |-> IF end.wins + end.losses > 0
                     THEN Rat(end.wins, end.wins + end.losses) ELSE RZero]

\* Result.calculateTradeStats: the walk over the ledger keeps the price and
\* quantity of the last Buy only
calculateTradeStats(trades) ==
    LET RECURSIVE Walk(_, _)
        Walk(k, st) ==
            IF k > Len(trades) THEN st
            ELSE LET trade == trades[k]
                 IN  Walk(k + 1,
                          IF trade.Side = BUY
                          THEN [st EXCEPT !.buyPrice = trade.Price,
                                          !.buyQty = trade.Quantity]
                          ELSE IF trade.Side = SELL /\ st.buyPrice > 0
                          THEN LET pnl == (trade.Price - st.buyPrice) * st.buyQty
                               IN  [buyPrice |-> 0, buyQty |-> 0,
                                    wins |-> st.wins + (IF pnl > 0 THEN 1 ELSE 0),
                                    losses |-> st.losses + (IF pnl < 0 THEN 1 ELSE 0)]
                          ELSE st)
        st0 == [buyPrice |-> 0, buyQty |-> 0, wins |-> 0, losses |-> 0]
        end == IF Len(trades) < 2 THEN st0 ELSE Walk(1, st0)
    IN  [WinningTrades |-> end.wins,
         LosingTrades |-> end.losses,
         WinRate |-> IF end.wins + end.losses > 0
                     THEN Rat(end.wins, end.wins + end.losses) ELSE RZero]

\* Result.calculateMaxDrawdown. The loop keeps the largest equity so far as
\* peak and assigns maxDrawdown and maxDrawdownPct together, whenever the
\* drawdown peak - equity exceeds maxDrawdown: their final values are those
\* of the first point whose drawdown is the largest, and 0 when no point has
\* a drawdown.
calculateMaxDrawdown(curve) ==
    LET n == Len(curve)
        peak == [k \in 1..n |->
                    CHOOSE p \in {curve[i].Equity : i \in 1..k} :
                        \A i \in 1..k : RLeq(curve[i].Equity, p)]
        drawdown == [k \in 1..n |-> RSub(peak[k], curve[k].Equity)]
        worst == CHOOSE k \in 1..n :
                    /\ \A i \in 1..n : RLeq(drawdown[i], drawdown[k])
                    /\ \A i \in 1..(k - 1) : RLess(drawdown[i], drawdown[k])
    IN  IF n = 0 \/ drawdown[worst] = RZero
        THEN [MaxDrawdown |-> RZero, MaxDrawdownPct |-> RZero]
        ELSE [MaxDrawdown |-> drawdown[worst],
              MaxDrawdownPct |-> RDiv(drawdown[worst], peak[worst])]

\* the Result without its Sharpe ratio (a square root)
calculateResult(e) ==
    IF Len(e.equity) = 0
    THEN [InitialBalance |-> e.initialBalance,
          FinalEquity |-> e.balance,
          TotalReturn |-> RZero,
          TotalTrades |-> 0,
          WinningTrades |-> 0, LosingTrades |-> 0, WinRate |-> RZero,
          MaxDrawdown |-> RZero, MaxDrawdownPct |-> RZero,
          StartTime |-> 0, EndTime |-> 0, Duration |-> 0,
          Trades |-> <<>>,
          EquityCurve |-> <<>>]
    ELSE LET finalEquity == e.equity[Len(e.equity)].Equity
             startTime == e.equity[1].Timestamp
             endTime == e.equity[Len(e.equity)].Timestamp
             stats == calculateTradeStats(e.trades)
             drawdown == calculateMaxDrawdown(e.equity)
         IN  [InitialBalance |-> e.initialBalance,
              FinalEquity |-> finalEquity,
              TotalReturn |-> RDiv(RSub(finalEquity, e.initialBalance), e.initialBalance),
              TotalTrades |-> Len(e.trades),
              WinningTrades |-> stats.WinningTrades,
              LosingTrades |-> stats.LosingTrades,
              WinRate |-> stats.WinRate,
              MaxDrawdown |-> drawdown.MaxDrawdown,
              MaxDrawdownPct |-> drawdown.MaxDrawdownPct,
              StartTime |-> startTime, EndTime |-> endTime,
              Duration |-> endTime - startTime,
              Trades |-> e.trades,
              EquityCurve |-> e.equity]

Closes == {100, 120}
SignalPrices == {0, 110}
InitialBalances == {240}
Commissions == {RZero, Rat(1, 100)}
Signals ==
    {Signal(a, q, p) : a \in {BUY, SELL}, q \in 1..MaxSignalQty, p \in SignalPrices}

\* candles of one interval each, in chronological order
CandleSeqs ==
    UNION {[1..n -> {Candle(0, c) : c \in Closes}] : n \in 0..MaxCandles}

WithOpenTimes(cs) == [i \in DOMAIN cs |-> Candle(60 * i, cs[i].Close)]

\* NewEngine(cfg), as cmd/trader and the API handler call it before Run
InitEngine ==
    /\ \E b \in InitialBalances, c \in Commissions :
          engine = NewEngine([InitialBalance |-> RInt(b), Commission |-> c])
    /\ \E cs \in CandleSeqs : candles = WithOpenTimes(cs)
    /\ enginePc = "new"
    /\ nextCandle = 1
    /\ offered = <<>>
    /\ lastSignal = NoSignal
    /\ enginePrev = engine
    /\ logged = <<>>
    /\ runErr = [err |-> NoErr, index |-> 0]
    /\ result = <<>>
    /\ cancelled = <<>>

\* Run: e.strategy.Initialize(ctx)
RunInitialize ==
    /\ enginePc = "new"
    /\ \E ok \in BOOLEAN :
          IF ok THEN enginePc' = "loop" /\ UNCHANGED runErr
          ELSE enginePc' = "failed" /\ runErr' = [err |-> ErrInitialize, index |-> 0]
    /\ UNCHANGED <<engine, candles, nextCandle, offered, lastSignal, enginePrev,
                   logged, result, cancelled, notEngine>>

RunStrategyError_AfterEquity ==
    /\ enginePc = "loop" /\ nextCandle <= Len(candles)
    /\ offered' = Append(offered, [index |-> nextCandle, points |-> Len(engine.equity)])
    /\ engine' = ProcessCandle(engine, candles[nextCandle], NoSignal).e
    /\ enginePc' = "failed"
    /\ runErr' = [err |-> ErrStrategy, index |-> nextCandle - 1]
    /\ UNCHANGED <<candles, nextCandle, lastSignal, enginePrev, logged,
                   result, cancelled, notEngine>>

\* Run: one turn of the loop in which OnCandle returns an error
RunStrategyError ==
    /\ enginePc = "loop" /\ nextCandle <= Len(candles)
    /\ offered' = Append(offered, [index |-> nextCandle, points |-> Len(engine.equity)])
    /\ enginePc' = "failed"
    /\ runErr' = [err |-> ErrStrategy, index |-> nextCandle - 1]
    /\ UNCHANGED <<engine, candles, nextCandle, lastSignal, enginePrev, logged,
                   result, cancelled, notEngine>>

\* Run: one turn of the loop in which OnCandle returns a signal or none
RunCandle ==
    /\ enginePc = "loop" /\ nextCandle <= Len(candles)
    /\ offered' = Append(offered, [index |-> nextCandle, points |-> Len(engine.equity)])
    /\ \E signal \in Signals \cup {NoSignal} :
          LET x == ProcessCandle(engine, candles[nextCandle], signal)
          IN  /\ engine' = x.e
              /\ lastSignal' = signal
              /\ logged' = IF x.err # NoErr THEN Append(logged, nextCandle) ELSE logged
    /\ enginePrev' = engine
    /\ nextCandle' = nextCandle + 1
    /\ UNCHANGED <<candles, enginePc, runErr, result, cancelled, notEngine>>

\* Run: the loop is over; calculateResult and return
RunReturn ==
    /\ enginePc = "loop" /\ nextCandle > Len(candles)
    /\ enginePc' = "returned"
    /\ result' = <<calculateResult(engine)>>
    /\ UNCHANGED <<engine, candles, nextCandle, offered, lastSignal, enginePrev,
                   logged, runErr, cancelled, notEngine>>

\* the caller of Run cancels the ctx it gave; Run never looks at it
CancelRun ==
    /\ enginePc \in {"new", "loop"}
    /\ cancelled = <<>>
    /\ cancelled' = <<nextCandle - 1>>
    /\ UNCHANGED <<engine, candles, enginePc, nextCandle, offered, lastSignal,
                   enginePrev, logged, runErr, result, notEngine>>

NextEngine == RunInitialize \/ RunStrategyError \/ RunCandle \/ RunReturn \/ CancelRun

\* an engine that is not used
NoEngine ==
    /\ engine = NewEngine([InitialBalance |-> RZero, Commission |-> RZero])
    /\ candles = <<>>
    /\ enginePc = "new"
    /\ nextCandle = 1
    /\ offered = <<>>
    /\ lastSignal = NoSignal
    /\ enginePrev = engine
    /\ logged = <<>>
    /\ runErr = [err |-> NoErr, index |-> 0]
    /\ result = <<>>
    /\ cancelled = <<>>

\* no collection under way
NoCollect ==
    /\ collect = <<>>
    /\ provided = 0
    /\ store = <<>>
    /\ requests = <<>>
    /\ batch = <<>>
    /\ got = <<>>

\* no strategy in use
NoStrategy ==
    /\ strategy = <<>>
    /\ fed = <<>>
    /\ emitted = <<>>
    /\ calls = 0
    /\ lastCall = "New"
    /\ beforeInit = <<>>

----------------------------------------------------------------------------
(* indicator: SMA, RSI, Bollinger Bands, over a sequence of integer prices *)

RECURSIVE SumLast(_, _)
\* the sum of the last n elements of xs
SumLast(xs, n) ==
    IF n = 0 THEN 0 ELSE xs[Len(xs)] + SumLast(SubSeq(xs, 1, Len(xs) - 1), n - 1)

SMA(prices, period) ==
    IF Len(prices) < period THEN RZero
    ELSE Rat(SumLast(prices, period), period)

\* the gains and the losses of RSI, one per price change
Gains(prices) ==
    [i \in 1..(Len(prices) - 1) |->
        IF prices[i + 1] - prices[i] > 0 THEN prices[i + 1] - prices[i] ELSE 0]

Losses(prices) ==
    [i \in 1..(Len(prices) - 1) |->
        IF prices[i + 1] - prices[i] > 0 THEN 0 ELSE Abs(prices[i + 1] - prices[i])]

RECURSIVE Smoothed(_, _, _)
\* the average of RSI over the first k changes, k >= period: the mean of the
\* first period changes, then avg = (avg * (period - 1) + x) / period
Smoothed(xs, period, k) ==
    IF k = period THEN Rat(SumLast(SubSeq(xs, 1, period), period), period)
    ELSE RDiv(RAdd(RMul(Smoothed(xs, period, k - 1), RInt(period - 1)), RInt(xs[k])),
              RInt(period))

RSI(prices, period) ==
    IF Len(prices) < period + 1 THEN RInt(50)
    ELSE LET avgGain == Smoothed(Gains(prices), period, Len(prices) - 1)
             avgLoss == Smoothed(Losses(prices), period, Len(prices) - 1)
         IN  IF avgLoss = RZero THEN RInt(100)
             ELSE RSub(RInt(100), RDiv(RInt(100), RAdd(RInt(1), RDiv(avgGain, avgLoss))))

RECURSIVE SumSqDiff(_, _, _)
\* the sum of (x - middle)^2 over the last n elements of xs
SumSqDiff(xs, middle, n) ==
    IF n = 0 THEN RZero
    ELSE LET diff == RSub(RInt(xs[Len(xs)]), middle)
         IN  RAdd(RMul(diff, diff), SumSqDiff(SubSeq(xs, 1, Len(xs) - 1), middle, n - 1))

\* the bands are Middle -/+ multiplier * sqrt(Variance); the square root is
\* not taken, the comparisons below are made on the squares
CalculateBollingerBands(prices, period, multiplier) ==
    IF Len(prices) < period
    THEN [Middle |-> RZero, Variance |-> RZero, Multiplier |-> multiplier]
    ELSE LET middle == SMA(prices, period)
         IN  [Middle |-> middle,
              Variance |-> RDiv(SumSqDiff(prices, middle, period), RInt(period)),
              Multiplier |-> multiplier]

\* multiplier * stdDev <= d
WithinDeviation(bb, d) ==
    /\ RLeq(RZero, d)
    /\ RLeq(RMul(RMul(bb.Multiplier, bb.Multiplier), bb.Variance), RMul(d, d))

\* currentPrice <= bb.Lower * 1.01
AtLowerBand(currentPrice, bb) ==
    WithinDeviation(bb, RSub(bb.Middle, Rat(currentPrice * 100, 101)))

\* currentPrice >= bb.Upper * 0.99
AtUpperBand(currentPrice, bb) ==
    WithinDeviation(bb, RSub(Rat(currentPrice * 100, 99), bb.Middle))

----------------------------------------------------------------------------
(* strategy: the reference strategies.  A strategy is a record of its kind, *)
(* its parameters and its internal state; OnCandle gives the strategy after *)
(* the call and the signal returned (NoSignal for nil).                     *)

CandleV(openTime, close, volume) ==
    [OpenTime |-> openTime, Close |-> close, Volume |-> volume]

Emitted(s, signal) == [s |-> s, signal |-> signal]

(* RSIStrategy *)
NewRSIStrategy(period, oversold, overbought, positionSize) ==
    [kind |-> "RSI", period |-> period, oversold |-> oversold,
     overbought |-> overbought, positionSize |-> positionSize,
     prices |-> <<>>, inPosition |-> FALSE]

RSIInitialize_KeepsPosition(s) == [s EXCEPT !.prices = <<>>]

RSIInitialize(s) == [s EXCEPT !.prices = <<>>, !.inPosition = FALSE]

RSIOnCandle_NoPositionGuard(s, candle) ==
    LET prices == Append(s.prices, candle.Close)
        s1 == [s EXCEPT !.prices = prices]
        rsi == RSI(prices, s.period)
    IN  IF Len(prices) < s.period + 1 THEN Emitted(s1, NoSignal)
        ELSE IF RLess(rsi, RInt(s.oversold))
        THEN Emitted([s1 EXCEPT !.inPosition = TRUE], Signal(BUY, s.positionSize, 0))
        ELSE IF RLess(RInt(s.overbought), rsi) /\ s.inPosition
        THEN Emitted([s1 EXCEPT !.inPosition = FALSE], Signal(SELL, s.positionSize, 0))
        ELSE Emitted(s1, NoSignal)

RSIOnCandle(s, candle) ==
    LET prices == Append(s.prices, candle.Close)
        s1 == [s EXCEPT !.prices = prices]
        rsi == RSI(prices, s.period)
    IN  IF Len(prices) < s.period + 1 THEN Emitted(s1, NoSignal)
        ELSE IF RLess(rsi, RInt(s.oversold)) /\ ~s.inPosition
        THEN Emitted([s1 EXCEPT !.inPosition = TRUE], Signal(BUY, s.positionSize, 0))
        ELSE IF RLess(RInt(s.overbought), rsi) /\ s.inPosition
        THEN Emitted([s1 EXCEPT !.inPosition = FALSE], Signal(SELL, s.positionSize, 0))
        ELSE Emitted(s1, NoSignal)

(* BBRSIStrategy *)
NewBBRSIStrategy(bbPeriod, bbMultiplier, rsiPeriod, rsiOversold, rsiOverbought, positionSize) ==
    [kind |-> "BBRSI", bbPeriod |-> bbPeriod, bbMultiplier |-> bbMultiplier,
     rsiPeriod |-> rsiPeriod, rsiOversold |-> rsiOversold,
     rsiOverbought |-> rsiOverbought, positionSize |-> positionSize,
     prices |-> <<>>, inPosition |-> FALSE]

BBRSIInitialize(s) == [s EXCEPT !.prices = <<>>, !.inPosition = FALSE]

BBRSIOnCandle(s, candle) ==
    LET prices == Append(s.prices, candle.Close)
        s1 == [s EXCEPT !.prices = prices]
        minPeriod == IF s.rsiPeriod > s.bbPeriod THEN s.rsiPeriod ELSE s.bbPeriod
        bb == CalculateBollingerBands(prices, s.bbPeriod, s.bbMultiplier)
        rsi == RSI(prices, s.rsiPeriod)
        currentPrice == candle.Close
    IN  IF Len(prices) < minPeriod + 1 THEN Emitted(s1, NoSignal)
        ELSE IF /\ AtLowerBand(currentPrice, bb)
                /\ RLess(rsi, RInt(s.rsiOversold))
                /\ ~s.inPosition
        THEN Emitted([s1 EXCEPT !.inPosition = TRUE], Signal(BUY, s.positionSize, 0))
        ELSE IF /\ AtUpperBand(currentPrice, bb)
                /\ RLess(RInt(s.rsiOverbought), rsi)
                /\ s.inPosition
        THEN Emitted([s1 EXCEPT !.inPosition = FALSE], Signal(SELL, s.positionSize, 0))
        ELSE Emitted(s1, NoSignal)

(* MACrossStrategy; its timestamps are the open times themselves *)
NewMACrossStrategy(fastPeriod, slowPeriod) ==
    [kind |-> "MACross", fastPeriod |-> fastPeriod, slowPeriod |-> slowPeriod,
     fastMA |-> <<>>, slowMA |-> <<>>, prices |-> <<>>, timestamps |-> <<>>,
     lastCross |-> ""]

MACrossInitialize(s) ==
    [s EXCEPT !.prices = <<>>, !.fastMA = <<>>, !.slowMA = <<>>,
              !.timestamps = <<>>, !.lastCross = ""]

\* the size of every MA-Cross order, 0.01
MACrossQuantity == Rat(1, 100)

MACrossOnCandle_NoHysteresis(s, candle) ==
    LET prices == Append(s.prices, candle.Close)
        s1 == [s EXCEPT !.prices = prices,
                        !.timestamps = Append(@, candle.OpenTime)]
        s2 == [s1 EXCEPT !.fastMA = Append(@, SMA(prices, s.fastPeriod)),
                         !.slowMA = Append(@, SMA(prices, s.slowPeriod))]
        n == Len(s2.fastMA)
        prevFast == s2.fastMA[n - 1]
        currFast == s2.fastMA[n]
        prevSlow == s2.slowMA[n - 1]
        currSlow == s2.slowMA[n]
    IN  IF Len(prices) < s.slowPeriod THEN Emitted(s1, NoSignal)
        ELSE IF n < 2 THEN Emitted(s2, NoSignal)
        ELSE IF /\ RLeq(prevFast, prevSlow) /\ RLess(currSlow, currFast)
        THEN Emitted([s2 EXCEPT !.lastCross = "golden"], Signal(BUY, MACrossQuantity, 0))
        ELSE IF /\ RLeq(prevSlow, prevFast) /\ RLess(currFast, currSlow)
        THEN Emitted([s2 EXCEPT !.lastCross = "death"], Signal(SELL, MACrossQuantity, 0))
        ELSE Emitted(s2, NoSignal)

MACrossOnCandle(s, candle) ==
    LET prices == Append(s.prices, candle.Close)
        s1 == [s EXCEPT !.prices = prices,
                        !.timestamps = Append(@, candle.OpenTime)]
        s2 == [s1 EXCEPT !.fastMA = Append(@, SMA(prices, s.fastPeriod)),
                         !.slowMA = Append(@, SMA(prices, s.slowPeriod))]
        n == Len(s2.fastMA)
        prevFast == s2.fastMA[n - 1]
        currFast == s2.fastMA[n]
        prevSlow == s2.slowMA[n - 1]
        currSlow == s2.slowMA[n]
    IN  IF Len(prices) < s.slowPeriod THEN Emitted(s1, NoSignal)
        ELSE IF n < 2 THEN Emitted(s2, NoSignal)
        ELSE IF /\ RLeq(prevFast, prevSlow) /\ RLess(currSlow, currFast)
                /\ s.lastCross # "golden"
        THEN Emitted([s2 EXCEPT !.lastCross = "golden"], Signal(BUY, MACrossQuantity, 0))
        ELSE IF /\ RLeq(prevSlow, prevFast) /\ RLess(currFast, currSlow)
                /\ s.lastCross # "death"
        THEN Emitted([s2 EXCEPT !.lastCross = "death"], Signal(SELL, MACrossQuantity, 0))
        ELSE Emitted(s2, NoSignal)

(* DCAStrategy; the zero time.Time is 0, before every candle *)
NewDCAStrategy(period, amountUSDT) ==
    [kind |-> "DCA", period |-> period, amountUSDT |-> amountUSDT,
     lastPurchaseTime |-> 0, isInitialized |-> FALSE]

DCAInitialize(s) == [s EXCEPT !.lastPurchaseTime = 0, !.isInitialized = FALSE]

DCAOnCandle_StrictlyLater(s, candle) ==
    LET quantity == Rat(s.amountUSDT, candle.Close)
    IN  IF ~s.isInitialized
        THEN Emitted([s EXCEPT !.isInitialized = TRUE,
                               !.lastPurchaseTime = candle.OpenTime],
                     Signal(BUY, quantity, 0))
        ELSE IF candle.OpenTime - s.lastPurchaseTime > s.period
        THEN Emitted([s EXCEPT !.lastPurchaseTime = candle.OpenTime],
                     Signal(BUY, quantity, 0))
        ELSE Emitted(s, NoSignal)

DCAOnCandle(s, candle) ==
    LET quantity == Rat(s.amountUSDT, candle.Close)
    IN  IF ~s.isInitialized
        THEN Emitted([s EXCEPT !.isInitialized = TRUE,
                               !.lastPurchaseTime = candle.OpenTime],
                     Signal(BUY, quantity, 0))
        ELSE IF candle.OpenTime - s.lastPurchaseTime >= s.period
        THEN Emitted([s EXCEPT !.lastPurchaseTime = candle.OpenTime],
                     Signal(BUY, quantity, 0))
        ELSE Emitted(s, NoSignal)

(* GoldenRSIBBStrategy *)
NewCustomGoldenRSIBBStrategy(fastPeriod, slowPeriod, rsiPeriod, bbPeriod, rsiLowerBound, rsiUpperBound, bbMultiplier, volumeThreshold, takeProfitPct, stopLossPct, positionSize) ==
    [kind |-> "GoldenRSIBB", fastPeriod |-> fastPeriod, slowPeriod |-> slowPeriod,
     rsiPeriod |-> rsiPeriod, rsiLowerBound |-> rsiLowerBound,
     rsiUpperBound |-> rsiUpperBound, bbPeriod |-> bbPeriod,
     bbMultiplier |-> bbMultiplier, volumeThreshold |-> volumeThreshold,
     takeProfitPct |-> takeProfitPct, stopLossPct |-> stopLossPct,
     positionSize |-> positionSize,
     prices |-> <<>>, volumes |-> <<>>, timestamps |-> <<>>, fastMA |-> <<>>,
     slowMA |-> <<>>, rsiValues |-> <<>>, inPosition |-> FALSE,
     entryPrice |-> 0, lastCross |-> ""]

GoldenInitialize(s) ==
    [s EXCEPT !.prices = <<>>, !.volumes = <<>>, !.timestamps = <<>>,
              !.fastMA = <<>>, !.slowMA = <<>>, !.rsiValues = <<>>,
              !.inPosition = FALSE, !.entryPrice = 0, !.lastCross = ""]

\* the number of periods the average volume is taken over
AverageVolumePeriods == 20

calculateAverageVolume(volumes, period) ==
    LET n == IF Len(volumes) < period THEN Len(volumes) ELSE period
    IN  IF n = 0 THEN RZero ELSE Rat(SumLast(volumes, n), n)

\* exits on take profit and stop loss only
GoldenExit_NoDeathCross(s, candle) ==
    LET currentPrice == candle.Close
        profitPct == Rat(currentPrice - s.entryPrice, s.entryPrice)
        sell == Signal(SELL, s.positionSize, 0)
    IN  IF RLeq(s.takeProfitPct, profitPct)
        THEN Emitted([s EXCEPT !.inPosition = FALSE], sell)
        ELSE IF RLeq(profitPct, RSub(RZero, s.stopLossPct))
        THEN Emitted([s EXCEPT !.inPosition = FALSE], sell)
        ELSE Emitted(s, NoSignal)

\* OnCandle while in position: take profit, stop loss, death cross
GoldenExit(s, candle) ==
    LET currentPrice == candle.Close
        profitPct == Rat(currentPrice - s.entryPrice, s.entryPrice)
        n == Len(s.fastMA)
        sell == Signal(SELL, s.positionSize, 0)
    IN  IF RLeq(s.takeProfitPct, profitPct)
        THEN Emitted([s EXCEPT !.inPosition = FALSE], sell)
        ELSE IF RLeq(profitPct, RSub(RZero, s.stopLossPct))
        THEN Emitted([s EXCEPT !.inPosition = FALSE], sell)
        ELSE IF /\ n >= 2
                /\ RLeq(s.slowMA[n - 1], s.fastMA[n - 1])
                /\ RLess(s.fastMA[n], s.slowMA[n])
        THEN Emitted([s EXCEPT !.inPosition = FALSE, !.lastCross = "death"], sell)
        ELSE Emitted(s, NoSignal)

\* OnCandle while not in position: the four entry conditions
GoldenEntry(s, candle, rsi, bb) ==
    LET currentPrice == candle.Close
        avgVolume == calculateAverageVolume(s.volumes, AverageVolumePeriods)
        n == Len(s.fastMA)
        currFast == s.fastMA[n]
        currSlow == s.slowMA[n]
        isGoldenCross ==
            \/ RLeq(s.fastMA[n - 1], s.slowMA[n - 1]) /\ RLess(currSlow, currFast)
            \/ RLess(currSlow, currFast) /\ s.lastCross = "golden"
        s1 == IF isGoldenCross /\ s.lastCross # "golden"
              THEN [s EXCEPT !.lastCross = "golden"] ELSE s
    IN  IF n < 2 THEN Emitted(s, NoSignal)
        ELSE IF RLeq(currFast, currSlow) THEN Emitted(s1, NoSignal)
        ELSE IF RLess(rsi, RInt(s.rsiLowerBound)) \/ RLess(RInt(s.rsiUpperBound), rsi)
        THEN Emitted(s1, NoSignal)
        ELSE IF RLeq(RInt(currentPrice), bb.Middle) THEN Emitted(s1, NoSignal)
        ELSE IF RLess(RInt(candle.Volume), RMul(avgVolume, s.volumeThreshold))
        THEN Emitted(s1, NoSignal)
        ELSE Emitted([s1 EXCEPT !.inPosition = TRUE, !.entryPrice = currentPrice],
                     Signal(BUY, s.positionSize, 0))

GoldenOnCandle(s, candle) ==
    LET prices == Append(s.prices, candle.Close)
        s1 == [s EXCEPT !.prices = prices,
                        !.volumes = Append(@, candle.Volume),
                        !.timestamps = Append(@, candle.OpenTime)]
        bb == CalculateBollingerBands(prices, s.bbPeriod, s.bbMultiplier)
        s2 == [s1 EXCEPT !.fastMA = Append(@, SMA(prices, s.fastPeriod)),
                         !.slowMA = Append(@, SMA(prices, s.slowPeriod))]
        rsi == RSI(prices, s.rsiPeriod)
        s3 == [s2 EXCEPT !.rsiValues = Append(@, rsi)]
    IN  IF Len(prices) < s.slowPeriod THEN Emitted(s1, NoSignal)
        ELSE IF Len(prices) < s.rsiPeriod + 1 THEN Emitted(s2, NoSignal)
        ELSE IF s.inPosition THEN GoldenExit(s3, candle)
        ELSE GoldenEntry(s3, candle, rsi, bb)

(* the Strategy interface *)
Initialize(s) ==
    CASE s.kind = "RSI" -> RSIInitialize(s)
      [] s.kind = "BBRSI" -> BBRSIInitialize(s)
      [] s.kind = "MACross" -> MACrossInitialize(s)
      [] s.kind = "DCA" -> DCAInitialize(s)
      [] s.kind = "GoldenRSIBB" -> GoldenInitialize(s)

OnCandle(s, candle) ==
    CASE s.kind = "RSI" -> RSIOnCandle(s, candle)
      [] s.kind = "BBRSI" -> BBRSIOnCandle(s, candle)
      [] s.kind = "MACross" -> MACrossOnCandle(s, candle)
      [] s.kind = "DCA" -> DCAOnCandle(s, candle)
      [] s.kind = "GoldenRSIBB" -> GoldenOnCandle(s, candle)

----------------------------------------------------------------------------
(* The wallet under a sequence of calls *)

InRange(b) ==
    \A a \in DOMAIN b :
        /\ b[a].Free \in (0 - MaxBal)..MaxBal
        /\ b[a].Locked \in (0 - MaxBal)..MaxBal
        /\ b[a].Total \in (0 - MaxBal)..MaxBal

Call(name, err) == [op |-> name, err |-> err]

\* One wallet call that returned r.
WalletStep(name, r) ==
    /\ InRange(r.balances)
    /\ balances' = r.balances
    /\ walletOp' = Call(name, r.err)
    /\ UNCHANGED <<walletArgs, walletPrev, concVars, notWallet>>

NoArgs == <<>>

\* No goroutine is inside the wallet.
NoGoroutines ==
    /\ mu = [writer |-> FALSE, readers |-> 0]
    /\ writerPc = "idle"
    /\ writerArgs = NoArgs
    /\ mutations = 0
    /\ readerPc = "idle"
    /\ readerTodo = <<>>
    /\ readerSeen = <<>>
    /\ boundary = {}

InitWallet ==
    /\ \E held \in SUBSET Assets :
         \E initialBalances \in [held -> 0..MaxBal] :
            balances = NewManager(initialBalances)
    /\ walletOp = Call("NewManager", NoErr)
    /\ walletArgs = NoArgs
    /\ walletPrev = NoArgs

DoLock ==
    \E asset \in Assets, amount \in Amounts :
        WalletStep("Lock", Lock(balances, asset, amount))

DoUnlock ==
    \E asset \in Assets, amount \in Amounts :
        WalletStep("Unlock", Unlock(balances, asset, amount))

DoDeduct ==
    \E asset \in Assets, amount \in Amounts :
        WalletStep("Deduct", Deduct(balances, asset, amount))

DoCredit ==
    \E asset \in Assets, amount \in Amounts :
        WalletStep("Credit", Credit(balances, asset, amount))

DoTransfer ==
    \E fromAsset \in Assets, fromAmount \in Amounts,
       toAsset \in Assets, toAmount \in Amounts :
        WalletStep("Transfer",
                   Transfer(balances, fromAsset, fromAmount, toAsset, toAmount))

NextWallet == DoLock \/ DoUnlock \/ DoDeduct \/ DoCredit \/ DoTransfer

InitSpecWallet == InitWallet /\ NoGoroutines /\ InitPortfolio /\ NoEngine /\ NoStrategy /\ NoCollect /\ NoOrders

SpecWallet == InitSpecWallet /\ [][NextWallet]_vars

----------------------------------------------------------------------------
\* C1: after any sequence of wallet calls, successful or not, every balance
\* record has total = free + locked.
C1_TotalIsFreePlusLocked ==
    \A a \in DOMAIN balances :
        balances[a].Total = balances[a].Free + balances[a].Locked

\* A Deduct has consumed a locked amount and a record holds both free and
\* locked funds.
C1_Witness ==
    /\ walletOp.op = "Deduct" /\ walletOp.err = NoErr
    /\ \E a \in DOMAIN balances : balances[a].Free > 0 /\ balances[a].Locked > 0

\* C2: after every wallet call, for every amount a caller may pass (negative
\* ones included), every balance record has free >= 0 and locked >= 0.
C2_FreeAndLockedNonNegative ==
    \A a \in DOMAIN balances : balances[a].Free >= 0 /\ balances[a].Locked >= 0

----------------------------------------------------------------------------
(* One wallet call, with its arguments, on a wallet that NewManager and     *)
(* earlier Lock calls have left with free and locked funds.                 *)

Args(asset, amount, toAsset, toAmount) ==
    [asset |-> asset, amount |-> amount, toAsset |-> toAsset, toAmount |-> toAmount]

InitWalletCall ==
    /\ \E held \in SUBSET Assets :
         \E free \in [held -> 0..MaxBal], locked \in [held -> 0..MaxBal] :
            balances = [a \in held |->
                          Balance(a, free[a], locked[a], free[a] + locked[a])]
    /\ walletOp = Call("NewManager", NoErr)
    /\ walletArgs = NoArgs
    /\ walletPrev = balances

CallStep(name, args, r) ==
    /\ walletArgs = NoArgs
    /\ balances' = r.balances
    /\ walletOp' = Call(name, r.err)
    /\ walletArgs' = args
    /\ walletPrev' = balances
    /\ UNCHANGED <<concVars, notWallet>>

CallLock ==
    \E asset \in Assets, amount \in CallAmounts :
        CallStep("Lock", Args(asset, amount, "", 0), Lock(balances, asset, amount))

CallUnlock ==
    \E asset \in Assets, amount \in CallAmounts :
        CallStep("Unlock", Args(asset, amount, "", 0), Unlock(balances, asset, amount))

CallDeduct ==
    \E asset \in Assets, amount \in CallAmounts :
        CallStep("Deduct", Args(asset, amount, "", 0), Deduct(balances, asset, amount))

CallCredit ==
    \E asset \in Assets, amount \in CallAmounts :
        CallStep("Credit", Args(asset, amount, "", 0), Credit(balances, asset, amount))

CallTransfer ==
    \E fromAsset \in Assets, fromAmount \in CallAmounts,
       toAsset \in Assets, toAmount \in CallAmounts :
        CallStep("Transfer", Args(fromAsset, fromAmount, toAsset, toAmount),
                 Transfer(balances, fromAsset, fromAmount, toAsset, toAmount))

NextWalletCall == CallLock \/ CallUnlock \/ CallDeduct \/ CallCredit \/ CallTransfer

InitSpecWalletCall == InitWalletCall /\ NoGoroutines /\ InitPortfolio /\ NoEngine /\ NoStrategy /\ NoCollect /\ NoOrders

SpecWalletCall == InitSpecWalletCall /\ [][NextWalletCall]_vars

FreeOf(b, a) == IF a \in DOMAIN b THEN b[a].Free ELSE 0
LockedOf(b, a) == IF a \in DOMAIN b THEN b[a].Locked ELSE 0

\* C3: Lock(asset, amount) with amount above the asset's free balance, or for
\* an asset without a record, returns an error and changes no balance; with
\* free >= amount it moves exactly amount from free to locked and changes
\* nothing else.
C3_LockErrorOrExactMove ==
    walletOp.op = "Lock" =>
        LET asset == walletArgs.asset
            amount == walletArgs.amount
        IN  IF asset \notin DOMAIN walletPrev \/ walletPrev[asset].Free < amount
            THEN walletOp.err # NoErr /\ balances = walletPrev
            ELSE /\ walletOp.err = NoErr
                 /\ DOMAIN balances = DOMAIN walletPrev
                 /\ balances[asset].Free = walletPrev[asset].Free - amount
                 /\ balances[asset].Locked = walletPrev[asset].Locked + amount
                 /\ balances[asset].Total = walletPrev[asset].Total
                 /\ \A a \in DOMAIN walletPrev \ {asset} : balances[a] = walletPrev[a]

\* A Lock of more than the free balance was refused on a record that holds
\* free funds.
C3_Witness ==
    /\ walletOp.op = "Lock" /\ walletOp.err = ErrInsufficientFree
    /\ walletPrev[walletArgs.asset].Free > 0
    /\ walletArgs.amount > walletPrev[walletArgs.asset].Free

\* C4: Transfer is atomic: a failed Transfer (unknown source, or source locked
\* below fromAmount) changes and creates no record; a successful one removes
\* exactly fromAmount from the source's locked, adds exactly toAmount to the
\* destination's free (creating the record if absent) and changes no other
\* asset.
C4_TransferAtomic ==
    walletOp.op = "Transfer" =>
        LET fromAsset == walletArgs.asset
            fromAmount == walletArgs.amount
            toAsset == walletArgs.toAsset
            toAmount == walletArgs.toAmount
        IN  IF fromAsset \notin DOMAIN walletPrev
               \/ walletPrev[fromAsset].Locked < fromAmount
            THEN walletOp.err # NoErr /\ balances = walletPrev
            ELSE /\ walletOp.err = NoErr
                 /\ DOMAIN balances = DOMAIN walletPrev \cup {toAsset}
                 /\ \A a \in DOMAIN balances :
                      /\ balances[a].Free = FreeOf(walletPrev, a)
                            + (IF a = toAsset THEN toAmount ELSE 0)
                      /\ balances[a].Locked = LockedOf(walletPrev, a)
                            - (IF a = fromAsset THEN fromAmount ELSE 0)
                      /\ a \notin {fromAsset, toAsset} => balances[a] = walletPrev[a]

\* A Transfer towards an asset without a record was refused for insufficient
\* locked funds, the source holding some locked funds.
C4_Witness ==
    /\ walletOp.op = "Transfer" /\ walletOp.err = ErrInsufficientLocked
    /\ walletPrev[walletArgs.asset].Locked > 0
    /\ walletArgs.toAsset \notin DOMAIN walletPrev
    /\ walletArgs.toAmount > 0

----------------------------------------------------------------------------
(* The wallet shared by two goroutines: one calls Transfer, the other       *)
(* GetBalance or GetAllBalances and then reads the fields of what it was    *)
(* given.  Every step is one access to the mutex, the map or a field.       *)

Fields == <<"Free", "Locked", "Total">>
Absent == <<>>        \* what is read of a record that is not in the map

ConcAmounts == 1..MaxAmount + 1

FieldOf(rec, f) ==
    IF f = "Free" THEN rec.Free ELSE IF f = "Locked" THEN rec.Locked ELSE rec.Total

\* The reads left to the caller that was handed the records of the assets in
\* order: every field of each, in the order of the struct.
ReadsOf(order) ==
    [i \in 1..(Len(order) * Len(Fields)) |->
        <<order[((i - 1) \div Len(Fields)) + 1], Fields[((i - 1) % Len(Fields)) + 1]>>]

\* The wallet of cmd/api: USDT only, part of it locked by earlier orders.
InitWalletConc ==
    /\ \E free \in 0..MaxBal, locked \in 0..MaxBal :
          balances = Lock(NewManager([a \in {"USDT"} |-> free + locked]),
                          "USDT", locked).balances
    /\ walletOp = Call("NewManager", NoErr)
    /\ walletArgs = NoArgs
    /\ walletPrev = NoArgs
    /\ NoGoroutines

\* m.mu.Lock()
TransferAcquire ==
    /\ writerPc = "idle" /\ mutations < MaxTransfers
    /\ ~mu.writer /\ mu.readers = 0
    /\ \E fromAsset \in Assets, fromAmount \in ConcAmounts,
          toAsset \in Assets, toAmount \in ConcAmounts :
          writerArgs' = Args(fromAsset, fromAmount, toAsset, toAmount)
    /\ mu' = [mu EXCEPT !.writer = TRUE]
    /\ writerPc' = "check"
    /\ UNCHANGED <<balances, mutations, readerPc, readerTodo, readerSeen, boundary, callVars, notWallet>>

\* the deferred m.mu.Unlock() of a Transfer that returns
TransferReturn ==
    /\ mu' = [mu EXCEPT !.writer = FALSE]
    /\ writerPc' = "idle"
    /\ mutations' = mutations + 1
    /\ boundary' = IF readerPc \in {"idle", "done"} THEN boundary
                   ELSE boundary \cup {balances'}

\* the two checks of the source; on failure Transfer returns
TransferCheck ==
    /\ writerPc = "check"
    /\ IF Transfer(balances, writerArgs.asset, writerArgs.amount,
                   writerArgs.toAsset, writerArgs.toAmount).err # NoErr
       THEN UNCHANGED balances /\ TransferReturn
       ELSE writerPc' = "debit" /\ UNCHANGED <<balances, mu, mutations, boundary, callVars, notWallet>>
    /\ UNCHANGED <<writerArgs, readerPc, readerTodo, readerSeen, callVars, notWallet>>

\* fromBalance.Locked -= fromAmount
TransferDebit ==
    /\ writerPc = "debit"
    /\ balances' = [balances EXCEPT ![writerArgs.asset].Locked = @ - writerArgs.amount]
    /\ writerPc' = "debitTotal"
    /\ UNCHANGED <<mu, writerArgs, mutations, readerPc, readerTodo, readerSeen, boundary, callVars, notWallet>>

\* fromBalance.Total = fromBalance.Free + fromBalance.Locked
TransferDebitTotal ==
    /\ writerPc = "debitTotal"
    /\ balances' = [balances EXCEPT ![writerArgs.asset].Total =
                        balances[writerArgs.asset].Free + balances[writerArgs.asset].Locked]
    /\ writerPc' = "credit"
    /\ UNCHANGED <<mu, writerArgs, mutations, readerPc, readerTodo, readerSeen, boundary, callVars, notWallet>>

\* the destination: a new record, or toBalance.Free += toAmount
TransferCredit ==
    /\ writerPc = "credit"
    /\ IF writerArgs.toAsset \notin DOMAIN balances
       THEN /\ balances' = PutBalance(balances, writerArgs.toAsset,
                              Balance(writerArgs.toAsset, writerArgs.toAmount, 0,
                                      writerArgs.toAmount))
            /\ writerPc' = "return"
       ELSE /\ balances' = [balances EXCEPT ![writerArgs.toAsset].Free =
                                                @ + writerArgs.toAmount]
            /\ writerPc' = "creditTotal"
    /\ UNCHANGED <<mu, writerArgs, mutations, readerPc, readerTodo, readerSeen, boundary, callVars, notWallet>>

\* toBalance.Total = toBalance.Free + toBalance.Locked
TransferCreditTotal ==
    /\ writerPc = "creditTotal"
    /\ balances' = [balances EXCEPT ![writerArgs.toAsset].Total =
                        balances[writerArgs.toAsset].Free + balances[writerArgs.toAsset].Locked]
    /\ writerPc' = "return"
    /\ UNCHANGED <<mu, writerArgs, mutations, readerPc, readerTodo, readerSeen, boundary, callVars, notWallet>>

TransferDone ==
    /\ writerPc = "return"
    /\ UNCHANGED <<balances, writerArgs, readerPc, readerTodo, readerSeen, callVars, notWallet>>
    /\ TransferReturn

\* m.mu.RLock() of GetBalance or GetAllBalances
ReaderAcquire ==
    /\ readerPc \in {"idle", "done"}
    /\ ~mu.writer
    /\ mu' = [mu EXCEPT !.readers = @ + 1]
    /\ readerPc' = "rlocked"
    /\ readerTodo' = <<>>
    /\ readerSeen' = <<>>
    /\ boundary' = {balances}
    /\ UNCHANGED <<balances, writerPc, writerArgs, mutations, callVars, notWallet>>

\* GetBalance: the lookup, the deferred RUnlock, and the return of the
\* pointer to the record (or of an error).
GetBalance ==
    /\ readerPc = "rlocked"
    /\ \E asset \in Assets :
          IF asset \in DOMAIN balances
          THEN readerTodo' = ReadsOf(<<asset>>) /\ readerPc' = "reading"
          ELSE readerTodo' = <<>> /\ readerPc' = "idle"
    /\ mu' = [mu EXCEPT !.readers = @ - 1]
    /\ UNCHANGED <<balances, writerPc, writerArgs, mutations, readerSeen, boundary, callVars, notWallet>>

\* GetAllBalances: the deferred RUnlock and the return of the map itself,
\* which the caller then ranges over in some order.
GetAllBalances ==
    /\ readerPc = "rlocked"
    /\ \E order \in {<<"USDT", "BTC">>, <<"BTC", "USDT">>} :
          readerTodo' = ReadsOf(order)
    /\ readerPc' = "reading"
    /\ mu' = [mu EXCEPT !.readers = @ - 1]
    /\ UNCHANGED <<balances, writerPc, writerArgs, mutations, readerSeen, boundary, callVars, notWallet>>

\* The caller reads one field through the pointer, holding no lock.  A record
\* that is not in the map when the range reaches it is passed over.
ReadField ==
    /\ readerPc = "reading"
    /\ LET asset == Head(readerTodo)[1]
           field == Head(readerTodo)[2]
           value == IF asset \in DOMAIN balances /\
                       (field = Fields[1] \/ readerSeen[<<asset, Fields[1]>>] # Absent)
                    THEN <<FieldOf(balances[asset], field)>>
                    ELSE Absent
       IN  readerSeen' = [k \in DOMAIN readerSeen \cup {<<asset, field>>} |->
                             IF k = <<asset, field>> THEN value ELSE readerSeen[k]]
    /\ readerTodo' = Tail(readerTodo)
    /\ readerPc' = IF Len(readerTodo) = 1 THEN "done" ELSE "reading"
    /\ UNCHANGED <<balances, mu, writerPc, writerArgs, mutations, boundary, callVars, notWallet>>

NextWalletConc ==
    \/ TransferAcquire \/ TransferCheck \/ TransferDebit \/ TransferDebitTotal
    \/ TransferCredit \/ TransferCreditTotal \/ TransferDone
    \/ ReaderAcquire \/ GetBalance \/ GetAllBalances \/ ReadField

InitSpecWalletConc == InitWalletConc /\ InitPortfolio /\ NoEngine /\ NoStrategy /\ NoCollect /\ NoOrders

SpecWalletConc == InitSpecWalletConc /\ [][NextWalletConc]_vars

\* What a reader of state b reads for the key k = <<asset, field>>.
ReadOf(b, k) == IF k[1] \in DOMAIN b THEN <<FieldOf(b[k[1]], k[2])>> ELSE Absent

\* C5: with one goroutine in Transfer and another reading through GetBalance
\* or GetAllBalances, the values the reader ends up with are those of one
\* wallet state that existed between two complete mutations: it never sees
\* the source debited and the destination not yet credited, nor a record
\* half written.
C5_ReaderSeesCommittedState ==
    readerPc = "done" =>
        \E b \in boundary : \A k \in DOMAIN readerSeen : readerSeen[k] = ReadOf(b, k)

----------------------------------------------------------------------------
(* The portfolio under a sequence of calls *)

\* a wallet that NewManager has made without balances, and is not used
NoWallet ==
    /\ balances = NewManager(<<>>)
    /\ walletOp = Call("NewManager", NoErr)
    /\ walletArgs = NoArgs
    /\ walletPrev = NoArgs
    /\ NoGoroutines

InitSpecPortfolio == InitPortfolio /\ NoWallet /\ NoEngine /\ NoStrategy /\ NoCollect /\ NoOrders

SpecPortfolio == InitSpecPortfolio /\ [][NextPortfolio]_vars

\* C6: in every state reachable by UpdatePosition and UpdatePrices calls, a
\* position whose quantity is 0 has unrealizedPnL = 0.
C6_FlatPositionHasNoUnrealizedPnL ==
    \A s \in DOMAIN positions :
        positions[s].Quantity = 0 => positions[s].UnrealizedPnL = RZero

\* A position whose unrealized PnL was not 0 has been closed.
C6_Witness ==
    /\ portfolioOp.op = "UpdatePosition"
    /\ portfolioOp.symbol \in DOMAIN portfolioPrev
    /\ portfolioPrev[portfolioOp.symbol].UnrealizedPnL # RZero
    /\ positions[portfolioOp.symbol].Quantity = 0

\* The position the last UpdatePosition was applied to, before and after.
Before == portfolioPrev[portfolioOp.symbol]
After == positions[portfolioOp.symbol]
Updated ==
    portfolioOp.op = "UpdatePosition" /\ portfolioOp.symbol \in DOMAIN portfolioPrev

\* C7: for a position with quantity q # 0 (long or short) and average entry
\* price entry, UpdatePosition(symbol, -q, p) increases realizedPnL by exactly
\* (p - entry) * q and sets quantity and unrealizedPnL to 0.
C7_FullCloseRealizes ==
    (Updated /\ Before.Quantity # 0 /\ portfolioOp.quantity = 0 - Before.Quantity) =>
        /\ After.RealizedPnL =
              RAdd(Before.RealizedPnL,
                   RMul(RSub(RInt(portfolioOp.price), Before.AvgEntryPrice),
                        RInt(Before.Quantity)))
        /\ After.Quantity = 0
        /\ After.UnrealizedPnL = RZero

\* A short position has been closed at a price other than its entry price.
C7_Witness ==
    /\ Updated /\ Before.Quantity < 0
    /\ portfolioOp.quantity = 0 - Before.Quantity
    /\ RInt(portfolioOp.price) # Before.AvgEntryPrice
    /\ After.RealizedPnL # RZero

\* C8: when the delta has the opposite sign of the prior quantity qPrior and a
\* larger magnitude, realizedPnL increases by (execPrice - avgEntry) * qPrior,
\* avgEntry becomes execPrice and quantity becomes qPrior + delta; long 1 at
\* 100 followed by UpdatePosition(sym, -3, 120) gives realized PnL 20 and the
\* position (-2, avgEntry 120).
Reversal ==
    /\ Updated
    /\ \/ Before.Quantity > 0 /\ portfolioOp.quantity < 0 - Before.Quantity
       \/ Before.Quantity < 0 /\ portfolioOp.quantity > 0 - Before.Quantity

C8_ReversalRealizesClosedLeg ==
    /\ Reversal =>
        /\ After.RealizedPnL =
              RAdd(Before.RealizedPnL,
                   RMul(RSub(RInt(portfolioOp.price), Before.AvgEntryPrice),
                        RInt(Before.Quantity)))
        /\ After.AvgEntryPrice = RInt(portfolioOp.price)
        /\ After.Quantity = Before.Quantity + portfolioOp.quantity
    /\ (/\ Updated
        /\ Before.Quantity = 1 /\ Before.AvgEntryPrice = RInt(100)
        /\ Before.RealizedPnL = RZero
        /\ portfolioOp.quantity = 0 - 3 /\ portfolioOp.price = 120) =>
        /\ After.RealizedPnL = RInt(20)
        /\ After.Quantity = 0 - 2
        /\ After.AvgEntryPrice = RInt(120)

\* Long 1 at 100 has been reversed by UpdatePosition(sym, -3, 120).
C8_Witness ==
    /\ Updated
    /\ Before.Quantity = 1 /\ Before.AvgEntryPrice = RInt(100)
    /\ Before.RealizedPnL = RZero
    /\ portfolioOp.quantity = 0 - 3 /\ portfolioOp.price = 120

\* C29: UpdatePosition with a delta of the sign of the prior quantity q sets
\* avgEntry so that avgEntry_new * (q + delta) = avgEntry * q + execPrice *
\* delta and leaves realizedPnL unchanged; with a delta of the opposite sign
\* that neither closes nor reverses the position it adds (execPrice -
\* avgEntry) * (-delta) to realizedPnL and leaves avgEntry unchanged.
C29_AddAveragesPartialCloseRealizes ==
    Updated =>
        LET q == Before.Quantity
            delta == portfolioOp.quantity
            execPrice == RInt(portfolioOp.price)
        IN  /\ ((q > 0 /\ delta > 0) \/ (q < 0 /\ delta < 0)) =>
                  /\ RMul(After.AvgEntryPrice, RInt(q + delta)) =
                        RAdd(RMul(Before.AvgEntryPrice, RInt(q)),
                             RMul(execPrice, RInt(delta)))
                  /\ After.RealizedPnL = Before.RealizedPnL
            /\ ((q > 0 /\ delta < 0 /\ q + delta > 0) \/ (q < 0 /\ delta > 0 /\ q + delta < 0)) =>
                  /\ After.RealizedPnL =
                        RAdd(Before.RealizedPnL,
                             RMul(RSub(execPrice, Before.AvgEntryPrice), RInt(0 - delta)))
                  /\ After.AvgEntryPrice = Before.AvgEntryPrice

\* A short position whose entry price is an average of two different
\* execution prices has been closed in part at yet another price.
C29_Witness ==
    /\ Updated /\ Before.Quantity < 0
    /\ portfolioOp.quantity > 0 /\ After.Quantity < 0
    /\ Before.AvgEntryPrice.d # 1
    /\ After.RealizedPnL # Before.RealizedPnL
    /\ After.AvgEntryPrice = Before.AvgEntryPrice

\* C37: every position with a non-zero quantity has unrealizedPnL =
\* (currentPrice - avgEntryPrice) * quantity, also directly after an
\* UpdatePosition.
C37_UnrealizedFollowsPosition ==
    \A s \in DOMAIN positions :
        positions[s].Quantity # 0 =>
            positions[s].UnrealizedPnL =
                RMul(RSub(RInt(positions[s].CurrentPrice), positions[s].AvgEntryPrice),
                     RInt(positions[s].Quantity))

----------------------------------------------------------------------------
(* A strategy under Initialize and OnCandle calls *)

StrategyCloses == {100, 110, 120}
Volumes == {10, 20}

\* the strategies made, with short periods
Strategies ==
    {NewRSIStrategy(p, 30, 70, 1) : p \in 1..2}
    \cup {NewBBRSIStrategy(2, RInt(1), p, 30, 70, 1) : p \in 1..2}
    \cup {NewMACrossStrategy(1, 2)}
    \cup {NewDCAStrategy(p, 100) : p \in 2..3}
    \cup {NewCustomGoldenRSIBBStrategy(1, 2, 2, 2, 40, 70, RInt(2), Rat(13, 10),
                                       Rat(pct, 100), Rat(pct, 200), 1) :
               pct \in {6, 50}}

\* the candles that can follow open time t: DCA reads the open time, Golden
\* the volume, every strategy but DCA the close
CandlesAfter(kind, t) ==
    IF kind = "DCA" THEN {CandleV(t + g, 100, 10) : g \in 1..MaxGap}
    ELSE IF kind = "GoldenRSIBB"
    THEN {CandleV(t + 1, c, v) : c \in StrategyCloses, v \in Volumes}
    ELSE {CandleV(t + 1, c, 10) : c \in StrategyCloses}

LastOpenTime == IF fed = <<>> THEN 0 ELSE fed[Len(fed)].OpenTime

InitStrategy ==
    /\ strategy \in Strategies
    /\ fed = <<>>
    /\ emitted = <<>>
    /\ calls = 0
    /\ lastCall = "New"
    /\ beforeInit = <<>>

StrategyInitialize ==
    /\ strategy' = Initialize(strategy)
    /\ fed' = <<>>
    /\ emitted' = <<>>
    /\ lastCall' = "Initialize"
    /\ beforeInit' = <<strategy>>
    /\ UNCHANGED <<calls, notStrategy>>

StrategyOnCandle ==
    /\ calls < MaxFed
    /\ \E candle \in CandlesAfter(strategy.kind, LastOpenTime) :
          LET x == OnCandle(strategy, candle)
          IN  /\ strategy' = x.s
              /\ fed' = Append(fed, candle)
              /\ emitted' = Append(emitted, x.signal)
    /\ calls' = calls + 1
    /\ lastCall' = "OnCandle"
    /\ beforeInit' = <<>>
    /\ UNCHANGED notStrategy

NextStrategy == StrategyInitialize \/ StrategyOnCandle

InitSpecStrategy == InitStrategy /\ NoWallet /\ InitPortfolio /\ NoEngine /\ NoCollect /\ NoOrders

SpecStrategy == InitSpecStrategy /\ [][NextStrategy]_vars

\* the signals emitted, in order, without the nils
SignalsEmitted == SelectSeq(emitted, LAMBDA g : g.Action # NoSignal.Action)

\* the fast average is below the slow one at the last candle processed
FastBelowSlow(s) ==
    /\ s.fastMA # <<>>
    /\ RLess(s.fastMA[Len(s.fastMA)], s.slowMA[Len(s.slowMA)])

\* C31: when a Golden-RSI-BB strategy that is in position processes a candle
\* on which the fast MA is below the slow MA, it emits a Sell on that candle
\* and is no longer in position after it.
C31_ExitsWhenFastBelowSlow ==
    [][(/\ strategy.kind = "GoldenRSIBB" /\ strategy.inPosition
        /\ lastCall' = "OnCandle" /\ FastBelowSlow(strategy'))
       => (/\ emitted'[Len(emitted')].Action = SELL
           /\ ~strategy'.inPosition)]_vars

\* The strategy has left its position on a death cross: the fast MA is below
\* the slow one and the price is within the take-profit and stop-loss
\* limits of the entry price.
C31_Witness ==
    /\ strategy.kind = "GoldenRSIBB" /\ lastCall = "OnCandle"
    /\ FastBelowSlow(strategy) /\ ~strategy.inPosition
    /\ emitted[Len(emitted)].Action = SELL
    /\ strategy.lastCross = "death"
    /\ LET profitPct == Rat(fed[Len(fed)].Close - strategy.entryPrice, strategy.entryPrice)
       IN  /\ RLess(profitPct, strategy.takeProfitPct)
           /\ RLess(RSub(RZero, strategy.stopLossPct), profitPct)

\* C28: the signals an MA-Cross strategy emits alternate: no two consecutive
\* ones have the same side.
C28_MACrossAlternates ==
    strategy.kind = "MACross" =>
        \A i \in 1..(Len(SignalsEmitted) - 1) :
            SignalsEmitted[i].Action # SignalsEmitted[i + 1].Action

\* a Buy was emitted, the fast average came back to the slow one without
\* falling below it and rose above it again, and nothing was emitted then
C28_Witness ==
    /\ strategy.kind = "MACross"
    /\ Len(SignalsEmitted) = 1 /\ SignalsEmitted[1].Action = BUY
    /\ \E k \in 2..Len(strategy.fastMA) :
          /\ RLeq(strategy.fastMA[k - 1], strategy.slowMA[k - 1])
          /\ RLess(strategy.slowMA[k], strategy.fastMA[k])
          /\ strategy.lastCross = "golden"
          /\ Len(emitted) = k + strategy.slowPeriod - 1
          /\ emitted[Len(emitted)].Action = NoSignal.Action
          /\ \E j \in 1..(Len(emitted) - 1) : emitted[j].Action = BUY

----------------------------------------------------------------------------
(* One Run of an engine on a strategy that keeps an in-position flag *)

\* the strategies with an in-position flag, with a position size the initial
\* balance can pay for and one it cannot
PositionStrategies ==
    {NewRSIStrategy(p, 30, 70, size) : p \in 1..2, size \in {1, 3}}
    \cup {NewBBRSIStrategy(2, RInt(1), p, 30, 70, size) : p \in 1..2, size \in {1, 3}}
    \cup {NewCustomGoldenRSIBBStrategy(1, 2, 2, 2, 40, 70, RInt(2), Rat(13, 10),
                                       Rat(6, 100), Rat(3, 100), size) :
               size \in {1, 3}}

\* candles of one interval each, in chronological order
BacktestCandles(kind) ==
    UNION {[1..n -> {CandleV(0, c, v) :
                        c \in StrategyCloses,
                        v \in IF kind = "GoldenRSIBB" THEN Volumes ELSE {10}}] :
           n \in 0..MaxCandles}

InitBacktest ==
    /\ strategy \in PositionStrategies
    /\ fed = <<>>
    /\ emitted = <<>>
    /\ calls = 0
    /\ lastCall = "New"
    /\ beforeInit = <<>>
    /\ \E b \in InitialBalances, c \in Commissions :
          engine = NewEngine([InitialBalance |-> RInt(b), Commission |-> c])
    /\ \E cs \in BacktestCandles(strategy.kind) :
          candles = [i \in DOMAIN cs |-> CandleV(60 * i, cs[i].Close, cs[i].Volume)]
    /\ enginePc = "new"
    /\ nextCandle = 1
    /\ offered = <<>>
    /\ lastSignal = NoSignal
    /\ enginePrev = engine
    /\ logged = <<>>
    /\ runErr = [err |-> NoErr, index |-> 0]
    /\ result = <<>>
    /\ cancelled = <<>>

\* Run: e.strategy.Initialize(ctx), which returns nil
BacktestInitialize ==
    /\ enginePc = "new"
    /\ strategy' = Initialize(strategy)
    /\ lastCall' = "Initialize"
    /\ beforeInit' = <<strategy>>
    /\ enginePc' = "loop"
    /\ UNCHANGED <<fed, emitted, calls, engine, candles, nextCandle, offered,
                   lastSignal, enginePrev, logged, runErr, result, cancelled,
                   balances, callVars, concVars, portfolioVars, collectVars, orderVars>>

\* The engine counts quantities in whole units. An MA-Cross strategy trades
\* MACrossQuantity at a time, so the engine it drives counts quantities in
\* lots of MACrossQuantity and money in the same fraction of the quote
\* asset; prices are unchanged.
InLots(kind, signal) ==
    IF kind = "MACross" /\ signal.Action # NoSignal.Action
    THEN [signal EXCEPT !.Quantity = RDiv(@, MACrossQuantity).n]
    ELSE signal

\* Run: one turn of the loop
BacktestCandle ==
    /\ enginePc = "loop" /\ nextCandle <= Len(candles)
    /\ offered' = Append(offered, [index |-> nextCandle, points |-> Len(engine.equity)])
    /\ LET candle == candles[nextCandle]
           x == OnCandle(strategy, candle)
           y == ProcessCandle(engine, candle, InLots(strategy.kind, x.signal))
       IN  /\ strategy' = x.s
           /\ fed' = Append(fed, candle)
           /\ emitted' = Append(emitted, x.signal)
           /\ engine' = y.e
           /\ lastSignal' = x.signal
           /\ logged' = IF y.err # NoErr THEN Append(logged, nextCandle) ELSE logged
    /\ calls' = calls + 1
    /\ lastCall' = "OnCandle"
    /\ beforeInit' = <<>>
    /\ enginePrev' = engine
    /\ nextCandle' = nextCandle + 1
    /\ UNCHANGED <<candles, enginePc, runErr, result, cancelled,
                   balances, callVars, concVars, portfolioVars, collectVars, orderVars>>

\* Run: the loop is over; calculateResult and return
BacktestReturn ==
    /\ enginePc = "loop" /\ nextCandle > Len(candles)
    /\ enginePc' = "returned"
    /\ result' = Append(result, calculateResult(engine))
    /\ UNCHANGED <<engine, candles, nextCandle, offered, lastSignal, enginePrev,
                   logged, runErr, cancelled, notEngine>>

\* Run is called once more on the same Engine with the same candles
BacktestAgain ==
    /\ enginePc = "returned" /\ Len(result) = 1
    /\ enginePc' = "new"
    /\ nextCandle' = 1
    /\ offered' = <<>>
    /\ logged' = <<>>
    /\ lastSignal' = NoSignal
    /\ enginePrev' = engine
    /\ fed' = <<>>
    /\ emitted' = <<>>
    /\ UNCHANGED <<engine, candles, runErr, result, cancelled, strategy, calls,
                   lastCall, beforeInit, balances, callVars, concVars,
                   portfolioVars, collectVars, orderVars>>

NextBacktest ==
    BacktestInitialize \/ BacktestCandle \/ BacktestReturn \/ BacktestAgain

InitSpecBacktest == InitBacktest /\ NoWallet /\ InitPortfolio /\ NoCollect /\ NoOrders

SpecBacktest == InitSpecBacktest /\ [][NextBacktest]_vars

\* A run of MA-Cross(5, 20) over 60 candles whose close is low for 20
\* candles, high for 20 and low again for 20, with a balance of 10000 (in
\* hundredths: 1000000) that pays for every order.
PlateauCandles(low, high) ==
    [i \in 1..60 |-> CandleV(60 * i, IF i <= 20 \/ i > 40 THEN low ELSE high, 10)]

InitCrossRun ==
    /\ strategy = NewMACrossStrategy(5, 20)
    /\ fed = <<>>
    /\ emitted = <<>>
    /\ calls = 0
    /\ lastCall = "New"
    /\ beforeInit = <<>>
    /\ \E c \in Commissions :
          engine = NewEngine([InitialBalance |-> RInt(1000000), Commission |-> c])
    /\ \E high \in {110, 120} : candles = PlateauCandles(100, high)
    /\ enginePc = "new"
    /\ nextCandle = 1
    /\ offered = <<>>
    /\ lastSignal = NoSignal
    /\ enginePrev = engine
    /\ logged = <<>>
    /\ runErr = [err |-> NoErr, index |-> 0]
    /\ result = <<>>
    /\ cancelled = <<>>

InitSpecCrossRun == InitCrossRun /\ NoWallet /\ InitPortfolio /\ NoCollect /\ NoOrders

SpecCrossRun == InitSpecCrossRun /\ [][NextBacktest]_vars

\* the index, counted from 0, of the candle a trade was settled at
CandleIndex(trade) == trade.Timestamp \div 60 - 1

\* the run over 20 x 100, 20 x 110, 20 x 100 has returned
CrossRunReturned == enginePc = "returned" /\ candles = PlateauCandles(100, 110)

\* C27 as stated: the run over 20 x 100, 20 x 110, 20 x 100 settles exactly
\* one Buy, at a candle index in 22..25 and price 110, and exactly one Sell,
\* at a candle index in 42..45 and price 100, and reports LosingTrades = 1,
\* WinningTrades = 0 and WinRate = 0.
C27_CrossRunAsStated ==
    CrossRunReturned =>
        LET r == result[1]
        IN  /\ Len(r.Trades) = 2
            /\ r.Trades[1].Side = BUY /\ r.Trades[1].Price = 110
            /\ CandleIndex(r.Trades[1]) \in 22..25
            /\ r.Trades[2].Side = SELL /\ r.Trades[2].Price = 100
            /\ CandleIndex(r.Trades[2]) \in 42..45
            /\ r.LosingTrades = 1 /\ r.WinningTrades = 0 /\ r.WinRate = RZero

\* C27, amended: the run over 20 x 100, 20 x 110, 20 x 100 settles exactly
\* one Buy, at candle index 20 (counted from 0: the first candle that closes
\* at 110) and price 110, and exactly one Sell, at candle index 40 (the
\* first candle that closes at 100 again) and price 100, and reports
\* LosingTrades = 1, WinningTrades = 0 and WinRate = 0.
C27_CrossRun ==
    CrossRunReturned =>
        LET r == result[1]
        IN  /\ Len(r.Trades) = 2
            /\ r.Trades[1].Side = BUY /\ r.Trades[1].Price = 110
            /\ CandleIndex(r.Trades[1]) = 20
            /\ r.Trades[2].Side = SELL /\ r.Trades[2].Price = 100
            /\ CandleIndex(r.Trades[2]) = 40
            /\ r.LosingTrades = 1 /\ r.WinningTrades = 0 /\ r.WinRate = RZero

\* The run has returned with both trades settled and no order refused.
C27_Witness ==
    /\ CrossRunReturned
    /\ nextCandle = 61 /\ logged = <<>>
    /\ result[1].TotalTrades = 2
    /\ engine.position = 0
    /\ RLess(result[1].FinalEquity, engine.initialBalance)

\* C15: during a run, after every candle, the strategy's in-position flag is
\* true exactly when the engine holds a position.
C15_FlagFollowsPosition ==
    enginePc \in {"loop", "returned"} =>
        (strategy.inPosition <=> engine.position > 0)

\* C36: a second Run on the same Engine with the same candles returns the
\* same Result as the first.
C36_SecondRunSameResult ==
    Len(result) = 2 => result[2] = result[1]

----------------------------------------------------------------------------
(* One Run of an engine that NewEngine has made *)

InitSpecEngine == InitEngine /\ NoWallet /\ InitPortfolio /\ NoStrategy /\ NoCollect /\ NoOrders

SpecEngine == InitSpecEngine /\ [][NextEngine]_vars

\* the trades of the ledger settled on candle i or before it
TradesUpTo(i) ==
    SelectSeq(engine.trades, LAMBDA t : t.Timestamp <= candles[i].OpenTime)

\* balance and position once candle i is settled, as the ledger records them
BalanceAfter(i) ==
    LET ts == TradesUpTo(i)
    IN  IF ts = <<>> THEN engine.initialBalance ELSE ts[Len(ts)].Balance

PositionAfter(i) ==
    LET ts == TradesUpTo(i)
    IN  IF ts = <<>> THEN 0 ELSE ts[Len(ts)].Position

\* C9: when Run returns a result, the equity curve has one point per candle,
\* in candle order, trade or no trade; point i has the open time of candle i
\* and equity = balance + position * close of candle i with the balance and
\* position the ledger has once candle i is settled; and the strategy was
\* given candle i when exactly the points of candles 1..i-1 were recorded.
C9_OneEquityPointPerCandle ==
    enginePc = "returned" =>
        /\ Len(engine.equity) = Len(candles)
        /\ Len(offered) = Len(candles)
        /\ \A i \in 1..Len(candles) :
              /\ engine.equity[i].Timestamp = candles[i].OpenTime
              /\ engine.equity[i].Equity =
                     RAdd(BalanceAfter(i), RInt(PositionAfter(i) * candles[i].Close))
              /\ offered[i] = [index |-> i, points |-> i - 1]

\* a run that returned, with a candle that settled a trade, a candle that
\* settled none, and a position held at the end
C9_Witness ==
    /\ enginePc = "returned"
    /\ Len(candles) >= 2
    /\ Len(engine.trades) >= 1
    /\ Len(engine.trades) < Len(candles)
    /\ engine.position > 0
    /\ engine.equity[Len(candles)].Equity # engine.balance

\* the signal cannot be settled by engine e: a Buy that costs more than the
\* balance, fee included, or a Sell of more than the position
Unaffordable(e, candle, signal) ==
    LET amount == RInt(ResolvePrice(candle, signal) * signal.Quantity)
    IN  \/ /\ signal.Action = BUY
           /\ RLess(e.balance, RAdd(amount, RMul(amount, e.commission)))
        \/ /\ signal.Action = SELL
           /\ signal.Quantity > e.position

\* C10: a turn of the loop whose signal is a Buy costing more than the balance
\* or a Sell of more than the position appends no trade, leaves balance and
\* position as they were, records the equity point of that candle, and leaves
\* Run in its loop, at the next candle, with no error.
C10_UnaffordableSignalIsSkipped ==
    [][(/\ enginePc = "loop"
        /\ nextCandle' = nextCandle + 1
        /\ Unaffordable(engine, candles[nextCandle], lastSignal'))
       =>
       (/\ engine'.trades = engine.trades
        /\ engine'.balance = engine.balance
        /\ engine'.position = engine.position
        /\ Len(engine'.equity) = Len(engine.equity) + 1
        /\ engine'.equity[Len(engine'.equity)].Timestamp = candles[nextCandle].OpenTime
        /\ enginePc' = "loop"
        /\ runErr'.err = NoErr)]_vars

\* a run that returned a result although a signal was skipped, on a candle
\* that was not the last, and that settled a trade as well
C10_Witness ==
    /\ enginePc = "returned"
    /\ runErr.err = NoErr
    /\ logged # <<>>
    /\ logged[1] < Len(candles)
    /\ Len(engine.trades) >= 1
    /\ Len(engine.equity) = Len(candles)

\* C13: when OnCandle returns an error at the candle of index i (from 0), Run
\* returns that error with index i and no Result; that candle was the last
\* one given to the strategy, no equity point and no trade carries its time,
\* and the equity curve holds the points of the i candles before it.
C13_StrategyErrorAbortsRun ==
    (enginePc = "failed" /\ runErr.err = ErrStrategy) =>
        LET i == runErr.index
        IN  /\ Len(offered) = i + 1
            /\ offered[i + 1].index = i + 1
            /\ Len(engine.equity) = i
            /\ \A k \in 1..Len(engine.equity) :
                  engine.equity[k].Timestamp < candles[i + 1].OpenTime
            /\ \A k \in 1..Len(engine.trades) :
                  engine.trades[k].Timestamp < candles[i + 1].OpenTime
            /\ result = <<>>

\* a run aborted by the strategy after a trade, with candles left over
C13_Witness ==
    /\ enginePc = "failed"
    /\ runErr.err = ErrStrategy
    /\ runErr.index >= 1
    /\ runErr.index + 1 < Len(candles)
    /\ Len(engine.trades) >= 1
    /\ result = <<>>

\* C14: once the ctx given to Run is cancelled between two candles, no
\* further candle is passed to the strategy, and what Run returns is the
\* ledger and the equity curve of the candles processed by then.
C14_CancelledRunOffersNoCandle ==
    [][(cancelled # <<>> /\ cancelled[1] \in 1..(Len(candles) - 1))
       =>
       (/\ offered' = offered
        /\ result' # <<>> => Len(result'[1].EquityCurve) = cancelled[1])]_vars

\* sums over the first k trades of the ledger
RECURSIVE SumFees(_, _)
SumFees(trades, k) ==
    IF k = 0 THEN RZero ELSE RAdd(SumFees(trades, k - 1), trades[k].Fee)

\* traded value: + price * quantity for a Sell, - price * quantity for a Buy
RECURSIVE NetSold(_, _)
NetSold(trades, k) ==
    IF k = 0 THEN 0
    ELSE NetSold(trades, k - 1)
         + (IF trades[k].Side = SELL THEN 1 ELSE 0 - 1) * trades[k].Price * trades[k].Quantity

\* the price of the last Buy among the first k trades, 0 if there is none
RECURSIVE LastBuyPrice(_, _)
LastBuyPrice(trades, k) ==
    IF k = 0 THEN 0
    ELSE IF trades[k].Side = BUY THEN trades[k].Price
    ELSE LastBuyPrice(trades, k - 1)

\* realized PnL, a Sell realizing (sellPrice - buyPrice) * quantity
RECURSIVE SumRealized(_, _)
SumRealized(trades, k) ==
    IF k = 0 THEN 0
    ELSE SumRealized(trades, k - 1)
         + (IF trades[k].Side = SELL
            THEN (trades[k].Price - LastBuyPrice(trades, k - 1)) * trades[k].Quantity
            ELSE 0)

\* the close of the candle processed last
LastClose == engine.equity[Len(engine.equity)].Price

MarkedToMarket == RAdd(engine.balance, RInt(engine.position * LastClose))

\* C12 as stated: at every candle step, balance + position * close less the
\* fees paid equals initialBalance plus the realized PnL.
C12_MassBalanceAsStated ==
    engine.equity # <<>> =>
        RSub(MarkedToMarket, SumFees(engine.trades, Len(engine.trades)))
            = RAdd(engine.initialBalance,
                   RInt(SumRealized(engine.trades, Len(engine.trades))))

\* C12 amended: at every candle step, balance + position * close plus the
\* fees paid equals initialBalance plus the value sold, less the value
\* bought, plus position * close.
C12_MassBalance ==
    engine.equity # <<>> =>
        RAdd(MarkedToMarket, SumFees(engine.trades, Len(engine.trades)))
            = RAdd(engine.initialBalance,
                   RInt(NetSold(engine.trades, Len(engine.trades))
                        + engine.position * LastClose))

\* a candle step with fees paid, a Sell settled, and a position still held at
\* a close that differs from the price it was bought at
C12_Witness ==
    /\ engine.equity # <<>>
    /\ RLess(RZero, SumFees(engine.trades, Len(engine.trades)))
    /\ \E k \in 1..Len(engine.trades) : engine.trades[k].Side = SELL
    /\ engine.position > 0
    /\ LastClose # LastBuyPrice(engine.trades, Len(engine.trades))

\* C16: the signals an RSI, BB-RSI or Golden-RSI-BB strategy has emitted since
\* Initialize alternate Buy, Sell, Buy, ..., the first being a Buy.
C16_SignalsAlternate ==
    strategy.kind \in {"RSI", "BBRSI", "GoldenRSIBB"} =>
        \A i \in 1..Len(SignalsEmitted) :
            SignalsEmitted[i].Action = IF i % 2 = 1 THEN BUY ELSE SELL

\* an RSI strategy that, initialized after use, has emitted Buy, Sell, Buy
C16_Witness ==
    /\ strategy.kind = "RSI"
    /\ lastCall = "OnCandle"
    /\ calls > Len(fed)
    /\ Len(SignalsEmitted) >= 3

\* C17: every Sell the MA-Cross strategy emits comes after a Buy with no Sell
\* in between; its first signal is not a Sell.
C17_NoSellWhileFlat ==
    strategy.kind = "MACross" =>
        \A i \in 1..Len(SignalsEmitted) :
            SignalsEmitted[i].Action = SELL =>
                i > 1 /\ SignalsEmitted[i - 1].Action = BUY

\* the open times fed span exactly k periods of the DCA strategy
Spans(k) ==
    /\ fed # <<>>
    /\ fed[Len(fed)].OpenTime - fed[1].OpenTime = k * strategy.period

\* C18 as stated: over candles whose first and last open times are k periods
\* apart, the DCA strategy emits k + 1 Buys and no Sell, whatever the spacing.
C18_BuysPerSpanAnySpacing ==
    strategy.kind = "DCA" =>
        \A k \in 0..(MaxFed * MaxGap) :
            Spans(k) =>
                /\ Len(SignalsEmitted) = k + 1
                /\ \A i \in 1..Len(SignalsEmitted) : SignalsEmitted[i].Action = BUY

\* there is a candle at every whole number of periods after the first one
OnEveryPeriod(k) ==
    \A j \in 0..k :
        \E i \in 1..Len(fed) : fed[i].OpenTime = fed[1].OpenTime + j * strategy.period

\* C18 amended: the same, when the candles include one at every whole number
\* of periods after the first.
C18_BuysPerSpan ==
    strategy.kind = "DCA" =>
        \A k \in 0..(MaxFed * MaxGap) :
            (Spans(k) /\ OnEveryPeriod(k)) =>
                /\ Len(SignalsEmitted) = k + 1
                /\ \A i \in 1..Len(SignalsEmitted) : SignalsEmitted[i].Action = BUY

\* a DCA run of two periods, with candles in between that buy nothing
C18_Witness ==
    /\ strategy.kind = "DCA"
    /\ Spans(2)
    /\ OnEveryPeriod(2)
    /\ Len(fed) > 3
    /\ Len(SignalsEmitted) = 3

\* the strategy its constructor makes from the parameters of s
Constructed(s) ==
    CASE s.kind = "RSI" ->
            NewRSIStrategy(s.period, s.oversold, s.overbought, s.positionSize)
      [] s.kind = "BBRSI" ->
            NewBBRSIStrategy(s.bbPeriod, s.bbMultiplier, s.rsiPeriod, s.rsiOversold,
                             s.rsiOverbought, s.positionSize)
      [] s.kind = "MACross" -> NewMACrossStrategy(s.fastPeriod, s.slowPeriod)
      [] s.kind = "DCA" -> NewDCAStrategy(s.period, s.amountUSDT)
      [] s.kind = "GoldenRSIBB" ->
            NewCustomGoldenRSIBBStrategy(s.fastPeriod, s.slowPeriod, s.rsiPeriod,
                                         s.bbPeriod, s.rsiLowerBound, s.rsiUpperBound,
                                         s.bbMultiplier, s.volumeThreshold,
                                         s.takeProfitPct, s.stopLossPct, s.positionSize)

\* C19: right after Initialize, whatever calls came before, a strategy is in
\* the state of a strategy just constructed with its parameters, so that it
\* emits the same signals from then on, and a second Initialize changes
\* nothing.
C19_InitializeResets ==
    lastCall = "Initialize" =>
        /\ strategy = Constructed(strategy)
        /\ Initialize(strategy) = strategy

\* Initialize called on an RSI strategy that holds prices and is in position
C19_Witness ==
    /\ lastCall = "Initialize"
    /\ beforeInit # <<>>
    /\ beforeInit[1].kind = "RSI"
    /\ beforeInit[1].inPosition
    /\ beforeInit[1].prices # <<>>
    /\ strategy.prices = <<>>


-----------------------------------------------------------------------------
\* Runs whose ledger and equity curve feed the statistics: the strategy asks
\* for one unit at the market or for nothing, the close moves at every
\* candle; the commission is none, or twice the traded amount.

InitStats ==
    /\ \E c \in {RZero, RInt(2)} :
          engine = NewEngine([InitialBalance |-> RInt(240), Commission |-> c])
    /\ \E cs \in UNION {[1..n -> {50, 100, 140, 200}] : n \in 0..MaxTrades} :
          /\ \A i \in 1..(Len(cs) - 1) : cs[i] # cs[i + 1]
          /\ candles = [i \in DOMAIN cs |-> Candle(60 * i, cs[i])]
    /\ enginePc = "loop"
    /\ nextCandle = 1
    /\ offered = <<>>
    /\ lastSignal = NoSignal
    /\ enginePrev = engine
    /\ logged = <<>>
    /\ runErr = [err |-> NoErr, index |-> 0]
    /\ result = <<>>
    /\ cancelled = <<>>

\* Run: one turn of the loop
StatsCandle ==
    /\ enginePc = "loop" /\ nextCandle <= Len(candles)
    /\ offered' = Append(offered, [index |-> nextCandle, points |-> Len(engine.equity)])
    /\ \E signal \in {NoSignal, Signal(BUY, 1, 0), Signal(SELL, 1, 0)} :
          LET x == ProcessCandle(engine, candles[nextCandle], signal)
          IN  /\ engine' = x.e
              /\ lastSignal' = signal
              /\ logged' = IF x.err # NoErr THEN Append(logged, nextCandle) ELSE logged
    /\ enginePrev' = engine
    /\ nextCandle' = nextCandle + 1
    /\ UNCHANGED <<candles, enginePc, runErr, result, cancelled, notEngine>>

NextStats == StatsCandle \/ RunReturn

InitSpecStats == InitStats /\ NoWallet /\ InitPortfolio /\ NoStrategy /\ NoCollect /\ NoOrders

SpecStats == InitSpecStats /\ [][NextStats]_vars

PairedStats(trades) ==
    LET RECURSIVE Walk(_, _)
        Walk(k, st) ==
            IF k > Len(trades) THEN st
            ELSE LET trade == trades[k]
                 IN  Walk(k + 1,
                          IF trade.Side = BUY
                          THEN [st EXCEPT !.unpaired = Append(@, trade)]
                          ELSE IF st.unpaired # <<>>
                          THEN LET buy == st.unpaired[Len(st.unpaired)]
                                   pnl == (trade.Price - buy.Price) * buy.Quantity
                               IN  [unpaired |-> SubSeq(st.unpaired, 1, Len(st.unpaired) - 1),
                                    wins |-> st.wins + (IF pnl > 0 THEN 1 ELSE 0),
                                    losses |-> st.losses + (IF pnl < 0 THEN 1 ELSE 0)]
                          ELSE st)
    IN  Walk(1, [unpaired |-> <<>>, wins |-> 0, losses |-> 0])

\* C25: the statistics of a returned Result count the round trips that pair
\* each Sell with the most recent Buy not yet paired: WinningTrades those
\* with pnl > 0, LosingTrades those with pnl < 0, WinRate = wins / (wins +
\* losses).
C25_SellsPairWithLastUnpairedBuy ==
    enginePc = "returned" =>
        LET st == PairedStats(result[1].Trades)
        IN  /\ result[1].WinningTrades = st.wins
            /\ result[1].LosingTrades = st.losses
            /\ st.wins + st.losses > 0 =>
                 result[1].WinRate = Rat(st.wins, st.wins + st.losses)

\* the largest (peak - equity) / peak over the first k points, peak being
\* the largest equity up to the point
RECURSIVE PeakUpTo(_, _)
PeakUpTo(curve, k) ==
    IF k = 1 THEN curve[1].Equity
    ELSE LET p == PeakUpTo(curve, k - 1)
         IN  IF RLess(p, curve[k].Equity) THEN curve[k].Equity ELSE p

RECURSIVE MaxFraction(_, _)
MaxFraction(curve, k) ==
    IF k = 0 THEN RZero
    ELSE LET peak == PeakUpTo(curve, k)
             here == RDiv(RSub(peak, curve[k].Equity), peak)
             before == MaxFraction(curve, k - 1)
         IN  IF RLess(before, here) THEN here ELSE before

\* C26: the MaxDrawdownPct of a returned Result is the largest fractional
\* drawdown (peak - equity) / peak over the points of the equity curve.
C26_MaxDrawdownPctIsLargestFraction ==
    enginePc = "returned" =>
        result[1].MaxDrawdownPct =
            MaxFraction(result[1].EquityCurve, Len(result[1].EquityCurve))

-----------------------------------------------------------------------------
\* The candle store: one table per interval, created by DB.Migrate; a table
\* is a bag of rows (row |-> number of copies) and UNIQUE(symbol, open_time)
\* is what the upsert statement of Save and SaveBatch relies on.  The five
\* columns open, high, low, close, volume travel together as ohlcv.

Intervals ==
    {"1m", "3m", "5m", "15m", "30m", "1h", "2h", "4h", "6h", "8h", "12h",
     "1d", "3d", "1w"}

getTableName(interval) == <<"candles", interval>>

NoRows == [r \in {} |-> 0]

\* CREATE TABLE IF NOT EXISTS for each interval of the migration
Migrate(db) ==
    LET intervals == {"1m", "5m", "15m", "30m", "1h", "4h", "1d"}
        tables == {getTableName(i) : i \in intervals}
    IN  [t \in DOMAIN db \cup tables |-> IF t \in DOMAIN db THEN db[t] ELSE NoRows]

StoredCandle(symbol, openTime, closeTime, ohlcv) ==
    [symbol |-> symbol, open_time |-> openTime, close_time |-> closeTime,
     ohlcv |-> ohlcv]

SameKey(r, c) == r.symbol = c.symbol /\ r.open_time = c.open_time

\* INSERT ... ON CONFLICT(symbol, open_time) DO NOTHING
Upsert_KeepsOld(table, cs) ==
    LET fresh == {c \in cs : \A r \in DOMAIN table : ~SameKey(r, c)}
    IN  [r \in DOMAIN table \cup fresh |-> IF r \in DOMAIN table THEN table[r] ELSE 1]

\* INSERT without ON CONFLICT, on a table without the UNIQUE constraint
Upsert_InsertOnly(table, cs) ==
    [r \in DOMAIN table \cup cs |->
        (IF r \in DOMAIN table THEN table[r] ELSE 0)
        + (IF r \in cs THEN 1 ELSE 0)]

\* INSERT ... ON CONFLICT(symbol, open_time) DO UPDATE SET close_time, open,
\* high, low, close, volume, for candles of pairwise different keys
Upsert(table, cs) ==
    LET keys == {<<c.symbol, c.open_time>> : c \in cs}
        kept == {r \in DOMAIN table : <<r.symbol, r.open_time>> \notin keys}
    IN  [r \in kept \cup cs |-> IF r \in cs THEN 1 ELSE table[r]]

Save(db, candle, interval) ==
    LET t == getTableName(interval)
    IN  IF t \notin DOMAIN db
        THEN [err |-> "failed to save candle", db |-> db]
        ELSE [err |-> "", db |-> [db EXCEPT ![t] = Upsert(@, {candle})]]

\* a batch that meets no failure of the database
SaveBatch(db, cs, interval) ==
    LET t == getTableName(interval)
    IN  IF t \notin DOMAIN db
        THEN [err |-> "failed to prepare statement", db |-> db]
        ELSE [err |-> "", db |-> [db EXCEPT ![t] = Upsert(@, cs)]]

\* the rows with start <= open_time < end of one symbol (the ascending order
\* of the result follows from the rows and is not kept)
GetRange(db, symbol, interval, start, end) ==
    LET t == getTableName(interval)
    IN  IF t \notin DOMAIN db
        THEN [err |-> "failed to query candles", rows |-> NoRows]
        ELSE LET hit == {r \in DOMAIN db[t] :
                            r.symbol = symbol /\ start <= r.open_time /\ r.open_time < end}
             IN  [err |-> "", rows |-> [r \in hit |-> db[t][r]]]

\* number of rows of a table, copies counted
RowCount(table) ==
    Cardinality(UNION {{<<r, k>> : k \in 1..table[r]} : r \in DOMAIN table})

NoBatch ==
    [op |-> "", interval |-> "", candles |-> <<>>, next |-> 0, pending |-> NoRows,
     before |-> <<>>, pc |-> "idle", err |-> ""]

\* the candles the callers of the store write: one symbol at the first
\* MaxBatch open times, an hour apart, another symbol at the first one, two
\* values each
StoreCandles ==
    {StoredCandle(k[1], k[2], k[2] + 3599, <<100, 100, 100, c, 10>>) :
        k \in ({"BTCUSDT"} \X {3600 * i : i \in 0..(MaxBatch - 1)}) \cup {<<"ETHUSDT", 0>>},
        c \in {100, 101}}

\* batches as the collector passes them: the candles of one symbol, ascending
\* from the first open time
Batches ==
    {cs \in UNION {[1..n -> StoreCandles] : n \in 1..MaxBatch} :
        \A i \in 1..Len(cs) : cs[i].symbol = "BTCUSDT" /\ cs[i].open_time = 3600 * (i - 1)}

InitStore ==
    /\ store = Migrate(<<>>)
    /\ batch = NoBatch
    /\ got = <<>>
    /\ collect = <<>>
    /\ provided = 0
    /\ requests = <<>>

\* CandleRepository.Save, one statement
StoreSave ==
    /\ batch.pc # "open"
    /\ \E c \in StoreCandles, outcome \in {"ok", "fails"} :
         LET interval == "1h"
             saved == Save(store, c, interval)
             failed == outcome = "fails" \/ saved.err # ""
         IN  /\ store' = IF failed THEN store ELSE saved.db
             /\ batch' = [NoBatch EXCEPT
                    !.op = "Save", !.interval = interval, !.candles = <<c>>,
                    !.before = store,
                    !.pc = IF failed THEN "rolled back" ELSE "committed",
                    !.err = IF failed THEN "failed to save candle" ELSE ""]
    /\ got' = <<>>
    /\ UNCHANGED <<collect, provided, requests, notCollect>>

\* SaveBatch: BeginTx and PrepareContext
BatchBegin ==
    /\ batch.pc # "open"
    /\ \E cs \in Batches, interval \in {"1h", "2h"} :
         LET t == getTableName(interval)
         IN  batch' = [NoBatch EXCEPT
                !.op = "SaveBatch", !.interval = interval, !.candles = cs,
                !.before = store, !.next = 1,
                !.pending = IF t \in DOMAIN store THEN store[t] ELSE NoRows,
                !.pc = IF t \in DOMAIN store THEN "open" ELSE "rolled back",
                !.err = IF t \in DOMAIN store THEN "" ELSE "failed to prepare statement"]
    /\ got' = <<>>
    /\ UNCHANGED <<store, collect, provided, requests, notCollect>>

\* the statement writes to the table at once, outside any transaction
BatchExec_WritesThrough ==
    /\ batch.pc = "open"
    /\ batch.next <= Len(batch.candles)
    /\ \E outcome \in {"ok", "fails"} :
         IF outcome = "fails"
         THEN /\ batch' = [batch EXCEPT !.pc = "rolled back",
                                        !.err = "failed to insert candle"]
              /\ store' = store
         ELSE /\ batch' = [batch EXCEPT
                    !.pending = Upsert(@, {batch.candles[batch.next]}),
                    !.next = @ + 1]
              /\ store' = [store EXCEPT ![getTableName(batch.interval)] =
                              Upsert(@, {batch.candles[batch.next]})]
    /\ UNCHANGED <<got, collect, provided, requests, notCollect>>

\* SaveBatch: stmt.ExecContext for the next candle, inside the transaction;
\* on an error the deferred Rollback drops what the transaction wrote
BatchExec ==
    /\ batch.pc = "open"
    /\ batch.next <= Len(batch.candles)
    /\ \E outcome \in {"ok", "fails"} :
         IF outcome = "fails"
         THEN batch' = [batch EXCEPT !.pc = "rolled back",
                                     !.err = "failed to insert candle"]
         ELSE batch' = [batch EXCEPT
                  !.pending = Upsert(@, {batch.candles[batch.next]}),
                  !.next = @ + 1]
    /\ UNCHANGED <<store, got, collect, provided, requests, notCollect>>

\* SaveBatch: tx.Commit
BatchCommit ==
    /\ batch.pc = "open"
    /\ batch.next > Len(batch.candles)
    /\ \E outcome \in {"ok", "fails"} :
         IF outcome = "fails"
         THEN /\ batch' = [batch EXCEPT !.pc = "rolled back",
                                        !.err = "failed to commit transaction"]
              /\ store' = store
         ELSE /\ batch' = [batch EXCEPT !.pc = "committed"]
              /\ store' = [store EXCEPT ![getTableName(batch.interval)] = batch.pending]
    /\ UNCHANGED <<got, collect, provided, requests, notCollect>>

\* GetRange by another caller, on another connection: it reads what is
\* committed (got is kept until the next write begins)
StoreGetRange ==
    /\ \E symbol \in Symbols :
         got' = <<[symbol |-> symbol, during |-> batch.pc,
                   rows |-> GetRange(store, symbol, "1h", 0, 3600 * MaxBatch).rows]>>
    /\ UNCHANGED <<store, batch, collect, provided, requests, notCollect>>

NextStore == StoreSave \/ BatchBegin \/ BatchExec \/ BatchCommit \/ StoreGetRange

InitSpecStore == InitStore /\ NoWallet /\ InitPortfolio /\ NoEngine /\ NoStrategy /\ NoOrders

SpecStore == InitSpecStore /\ [][NextStore]_vars

-----------------------------------------------------------------------------
\* Historical collection: Collector.CollectHistorical pages through the
\* provider's klines and upserts them into the candle table.  An instant is
\* a record of whole seconds and milliseconds (0..999) so that the cursor's
\* "close time truncated to the second, plus one millisecond" is exact.

maxLimit == 1000

Time(s, ms) == [s |-> s, ms |-> ms]

TimeBefore(a, b) == a.s < b.s \/ (a.s = b.s /\ a.ms < b.ms)

AddSeconds(t, n) == Time(t.s + n, t.ms)

\* whole seconds of the duration a - b, for a not before b
WholeSeconds(a, b) == (a.s - b.s) - (IF a.ms < b.ms THEN 1 ELSE 0)

\* the interval's duration, in seconds
parseInterval(interval) ==
    CASE interval = "1m" -> 60
      [] interval = "3m" -> 180
      [] interval = "5m" -> 300
      [] interval = "15m" -> 900
      [] interval = "30m" -> 1800
      [] interval = "1h" -> 3600
      [] interval = "2h" -> 7200
      [] interval = "4h" -> 14400
      [] interval = "6h" -> 21600
      [] interval = "8h" -> 28800
      [] interval = "12h" -> 43200
      [] interval = "1d" -> 86400
      [] interval = "3d" -> 259200
      [] interval = "1w" -> 604800
      [] OTHER -> 60

\* the provider's candles are consecutive: candle j opens at GridStart plus
\* j intervals and closes one millisecond before the next one opens
GridStart == 3600

OpenTime(j, interval) == Time(GridStart + j * parseInterval(interval), 0)

CloseTime(j, interval) == Time(GridStart + (j + 1) * parseInterval(interval) - 1, 999)

\* the klines request: up to limit candles, ascending, whose open time lies
\* in [startT, endT]; the answer is the range of candle numbers lo..hi
Klines(interval, startT, endT, limit, n) ==
    LET d == parseInterval(interval)
        startSec == IF startT.ms > 0 THEN startT.s + 1 ELSE startT.s
        lo == IF startSec <= GridStart THEN 0
              ELSE (startSec - GridStart + d - 1) \div d
        hiEnd == IF endT.s < GridStart THEN 0 - 1
                 ELSE (endT.s - GridStart) \div d
        hiHeld == IF hiEnd < n - 1 THEN hiEnd ELSE n - 1
        hi == IF lo + limit - 1 < hiHeld THEN lo + limit - 1 ELSE hiHeld
    IN  [lo |-> lo, hi |-> hi, len |-> IF hi < lo THEN 0 ELSE hi - lo + 1]

\* the candles made of the klines lo..hi of a page: times cut to whole
\* seconds; kline j carries the values j
ConvertKlines(symbol, interval, klines) ==
    {StoredCandle(symbol, OpenTime(j, interval).s, CloseTime(j, interval).s,
                  <<j, j, j, j, j>>) : j \in klines.lo..klines.hi}

\* starts the next page at the open time of the last kline
NextCursor_AtLastOpen(last) == Time(last.OpenTime.s, 0)

\* rounds the close time up to whole seconds
NextCursor_RoundedUp(last) == Time(last.CloseTime.s + 1, 1)

\* the start of the next page: the last kline's close time, cut to whole
\* seconds, plus one millisecond
NextCursor(last) == Time(last.CloseTime.s, 1)

InitCollect ==
    /\ \E interval \in {"1h", "1m"}, n \in {1, 999, 1000, 1001, 2000, 3000},
          off \in {0, 1, 1800} :
         \* off: seconds by which startTime precedes the first candle's open time
         LET startTime == Time(GridStart - off, 0)
         IN  collect = [symbol |-> "BTCUSDT",
                        interval |-> interval,
                        startTime |-> startTime,
                        endTime |-> AddSeconds(startTime, n * parseInterval(interval)),
                        currentStart |-> startTime,
                        totalCandles |-> 0,
                        pc |-> "loop",
                        err |-> "",
                        run |-> 1,
                        first |-> ""]
             /\ provided \in (n - 1)..(n + MaxExtra)
    /\ store = Migrate(<<>>)
    /\ requests = <<>>
    /\ batch = NoBatch
    /\ got = <<>>

\* after a failure the loop goes on with the same currentStart
CollectPage_Retry ==
    /\ collect.pc = "loop"
    /\ TimeBefore(collect.currentStart, collect.endTime)
    /\ \E outcome \in {"ok", "fetch fails", "save fails"} :
         LET d == parseInterval(collect.interval)
             whole == AddSeconds(collect.currentStart, d * maxLimit)
             clipped == TimeBefore(collect.endTime, whole)
             batchEnd == IF clipped THEN collect.endTime ELSE whole
             needed == WholeSeconds(batchEnd, collect.currentStart) \div d
             limit == IF ~clipped THEN maxLimit
                      ELSE IF needed > maxLimit THEN maxLimit
                      ELSE IF needed < 1 THEN 1
                      ELSE needed
             klines == Klines(collect.interval, collect.currentStart, batchEnd,
                              limit, provided)
             saved == SaveBatch(store, ConvertKlines(collect.symbol, collect.interval, klines),
                                collect.interval)
             request == [start |-> collect.currentStart, end |-> batchEnd,
                         limit |-> limit,
                         lo |-> klines.lo,
                         hi |-> IF outcome = "fetch fails" THEN klines.lo - 1 ELSE klines.hi,
                         returned |-> IF outcome = "fetch fails" THEN 0 ELSE klines.len]
         IN  /\ requests' = Append(requests, request)
             /\ IF outcome = "fetch fails"
                THEN /\ collect' = [collect EXCEPT !.err = "failed to fetch klines"]
                     /\ store' = store
                ELSE IF klines.len = 0
                THEN /\ collect' = [collect EXCEPT !.pc = "done"]
                     /\ store' = store
                ELSE IF outcome = "save fails" \/ saved.err # ""
                THEN /\ collect' = [collect EXCEPT !.err = "failed to save candles"]
                     /\ store' = store
                ELSE /\ store' = saved.db
                     /\ collect' = [collect EXCEPT
                            !.totalCandles = @ + klines.len,
                            !.currentStart =
                                NextCursor([OpenTime |-> OpenTime(klines.hi, collect.interval),
                                            CloseTime |-> CloseTime(klines.hi, collect.interval)])]
    /\ UNCHANGED <<provided, batch, got, notCollect>>

\* one iteration of the loop of CollectHistorical
CollectPage ==
    /\ collect.pc = "loop"
    /\ TimeBefore(collect.currentStart, collect.endTime)
    /\ \E outcome \in {"ok", "fetch fails", "save fails"} :
         LET d == parseInterval(collect.interval)
             whole == AddSeconds(collect.currentStart, d * maxLimit)
             clipped == TimeBefore(collect.endTime, whole)
             batchEnd == IF clipped THEN collect.endTime ELSE whole
             needed == WholeSeconds(batchEnd, collect.currentStart) \div d
             limit == IF ~clipped THEN maxLimit
                      ELSE IF needed > maxLimit THEN maxLimit
                      ELSE IF needed < 1 THEN 1
                      ELSE needed
             klines == Klines(collect.interval, collect.currentStart, batchEnd,
                              limit, provided)
             saved == SaveBatch(store, ConvertKlines(collect.symbol, collect.interval, klines),
                                collect.interval)
             request == [start |-> collect.currentStart, end |-> batchEnd,
                         limit |-> limit,
                         lo |-> klines.lo,
                         hi |-> IF outcome = "fetch fails" THEN klines.lo - 1 ELSE klines.hi,
                         returned |-> IF outcome = "fetch fails" THEN 0 ELSE klines.len]
         IN  /\ requests' = Append(requests, request)
             /\ IF outcome = "fetch fails"
                THEN /\ collect' = [collect EXCEPT !.pc = "failed",
                                                   !.err = "failed to fetch klines"]
                     /\ store' = store
                ELSE IF klines.len = 0
                THEN /\ collect' = [collect EXCEPT !.pc = "done"]
                     /\ store' = store
                ELSE IF outcome = "save fails" \/ saved.err # ""
                THEN /\ collect' = [collect EXCEPT !.pc = "failed",
                                                   !.err = "failed to save candles"]
                     /\ store' = store
                ELSE /\ store' = saved.db
                     /\ collect' = [collect EXCEPT
                            !.totalCandles = @ + klines.len,
                            !.currentStart =
                                NextCursor([OpenTime |-> OpenTime(klines.hi, collect.interval),
                                            CloseTime |-> CloseTime(klines.hi, collect.interval)])]
    /\ UNCHANGED <<provided, batch, got, notCollect>>

\* the loop ends: currentStart is not before endTime
CollectReturn ==
    /\ collect.pc = "loop"
    /\ ~TimeBefore(collect.currentStart, collect.endTime)
    /\ collect' = [collect EXCEPT !.pc = "done"]
    /\ UNCHANGED <<provided, store, requests, batch, got, notCollect>>

\* CollectHistorical is called again with the same arguments, the provider
\* and the store being as the first call left them
CollectAgain ==
    /\ collect.pc \in {"done", "failed"}
    /\ collect.run = 1
    /\ collect' = [collect EXCEPT !.currentStart = collect.startTime,
                                  !.totalCandles = 0,
                                  !.pc = "loop",
                                  !.err = "",
                                  !.run = 2,
                                  !.first = collect.pc]
    /\ requests' = <<>>
    /\ UNCHANGED <<provided, store, batch, got, notCollect>>

NextCollect == CollectPage \/ CollectReturn \/ CollectAgain

InitSpecCollect == InitCollect /\ NoWallet /\ InitPortfolio /\ NoEngine /\ NoStrategy /\ NoOrders

SpecCollect == InitSpecCollect /\ [][NextCollect]_vars

\* number of the provider's candles whose open time lies in
\* [startTime, endTime)
Covered ==
    Cardinality({j \in 0..(provided - 1) :
        /\ ~TimeBefore(OpenTime(j, collect.interval), collect.startTime)
        /\ TimeBefore(OpenTime(j, collect.interval), collect.endTime)})

CollectedTable == store[getTableName(collect.interval)]

\* C20: a finished collection whose window covers exactly 3000 consecutive
\* 1h candles made exactly 3 provider calls (4 only if the third page came
\* back with fewer than 1000 candles), and the store holds exactly 3000 rows.
C20_ThreePagesFor3000 ==
    (collect.pc = "done" /\ collect.interval = "1h" /\ Covered = 3000)
        => /\ \/ Len(requests) = 3
              \/ Len(requests) = 4 /\ requests[3].returned < maxLimit
           /\ RowCount(CollectedTable) = 3000

\* the candles of the pages 1..k of this call
PagesUpTo(k) ==
    UNION {ConvertKlines(collect.symbol, collect.interval, requests[i]) : i \in 1..k}

\* C21: once the provider call or SaveBatch has failed on page k, the call
\* has returned the error: no later step makes a provider call or writes to
\* the store, and (in a call that began with an empty table) the table
\* holds the candles of the pages 1..k-1 and nothing else, none of page k.
C21_FailFast ==
    /\ [](collect.err # "" =>
            /\ collect.pc = "failed"
            /\ collect.run = 1 =>
                 CollectedTable = Upsert(NoRows, PagesUpTo(Len(requests) - 1)))
    /\ [][collect.err # "" /\ collect'.run = collect.run =>
            requests' = requests /\ store' = store]_vars

C21_Witness ==
    /\ collect.err = "failed to save candles"
    /\ collect.run = 1
    /\ Len(requests) = 3
    /\ RowCount(CollectedTable) = 2 * maxLimit

\* what one complete call stores: every candle the provider holds with
\* startTime <= open time <= endTime, once
CompleteRun ==
    Upsert(NoRows,
           ConvertKlines(collect.symbol, collect.interval,
               Klines(collect.interval, collect.startTime, collect.endTime,
                      provided + 1, provided)))

\* number of the provider's candles that open from startTime to endTime
InWindow ==
    Klines(collect.interval, collect.startTime, collect.endTime,
           provided + 1, provided).len

\* C33: CollectHistorical terminates: a page that is not empty and does not
\* end the call leaves the cursor strictly later than it was, the loop goes
\* on only while the cursor is before endTime, and a call makes at most one
\* provider call more than the provider has candles in the window.
C33_Terminates ==
    /\ [][(/\ collect.pc = "loop" /\ collect'.pc = "loop"
           /\ Len(requests') = Len(requests) + 1)
          => /\ TimeBefore(collect.currentStart, collect'.currentStart)
             /\ TimeBefore(collect.currentStart, collect.endTime)]_vars
    /\ [](Len(requests) <= InWindow + 1)

C33_Witness ==
    /\ collect.pc = "done" /\ collect.run = 1
    /\ Len(requests) = 3
    /\ requests[1].returned = maxLimit /\ requests[2].returned > 0
    /\ requests[3].returned = 0

\* C22: when a call has completed, be it the first one or a second one with
\* the same arguments after a first one that completed or failed part-way,
\* the table holds the rows and values of one complete call, each row once.
C22_RerunIsNoOp ==
    collect.pc = "done" => CollectedTable = CompleteRun

C22_Witness ==
    /\ collect.pc = "done"
    /\ collect.run = 2
    /\ collect.first = "failed"
    /\ Len(requests) >= 3
    /\ RowCount(CollectedTable) >= 2 * maxLimit

WrittenTable == store[getTableName(batch.interval)]

TableBefore == batch.before[getTableName(batch.interval)]

\* C23: a Save or SaveBatch that succeeded left, for each candle written,
\* exactly one row with the candle's (symbol, open_time) in the interval's
\* table, holding the candle's closeTime and values; the table has one row
\* more for each key that was not stored before and no other row changed,
\* nor any other interval's table.
C23_WritesAreUpserts ==
    batch.pc = "committed" =>
        LET cs == {batch.candles[i] : i \in 1..Len(batch.candles)}
            fresh == {c \in cs : \A r \in DOMAIN TableBefore : ~SameKey(r, c)}
        IN  /\ \A c \in cs :
                 /\ c \in DOMAIN WrittenTable
                 /\ \A r \in DOMAIN WrittenTable : SameKey(r, c) => r = c /\ WrittenTable[r] = 1
            /\ RowCount(WrittenTable) = RowCount(TableBefore) + Cardinality(fresh)
            /\ \A r \in DOMAIN TableBefore :
                 (\A c \in cs : ~SameKey(r, c)) =>
                     r \in DOMAIN WrittenTable /\ WrittenTable[r] = TableBefore[r]
            /\ \A t \in DOMAIN store :
                 t # getTableName(batch.interval) => store[t] = batch.before[t]

\* a batch of two candles written a second time with other closes
C23_Witness ==
    /\ batch.pc = "committed"
    /\ batch.op = "SaveBatch"
    /\ Len(batch.candles) = 2
    /\ \A i \in 1..2 : \E r \in DOMAIN TableBefore :
          SameKey(r, batch.candles[i]) /\ r.ohlcv[4] # batch.candles[i].ohlcv[4]
    /\ RowCount(WrittenTable) = 2

\* C24: a write that failed, at any candle or at the commit, left the store
\* as it was before the write; and a GetRange made while a batch is being
\* written returns the rows as they were before the batch.
C24_BatchAllOrNothing ==
    /\ [](batch.pc = "rolled back" => store = batch.before)
    /\ [][(batch.pc = "open" /\ batch' = batch /\ got' # got) =>
            got'[1].rows = GetRange(batch.before, got'[1].symbol, "1h", 0, 3600 * MaxBatch).rows]_vars

C24_Witness ==
    /\ batch.pc = "rolled back"
    /\ batch.op = "SaveBatch"
    /\ batch.next = 2
    /\ batch.pending # TableBefore
    /\ got # <<>>
    /\ got[1].during = "open"
    /\ got[1].symbol = batch.candles[1].symbol

\* C30: the migrated store has a candle table for every interval label, and
\* no SaveBatch fails for a missing table.
C30_TableForEveryInterval ==
    /\ \A i \in Intervals : getTableName(i) \in DOMAIN store
    /\ batch.err # "failed to prepare statement"


----------------------------------------------------------------------------
(* An order.Service whose PlaceOrder is called by two callers, one order    *)
(* each. The wallet holds 4.004 USDT and 2 BTC; the orders are for BTCUSDT, *)
(* which the exchange quotes or does not know. The callers are numbered in  *)
(* the order of their calls. SpecOrder: the calls follow one another, while *)
(* the exchange's simulatePriceUpdates goroutine runs, orders are cancelled *)
(* and the exchange is closed. SpecOrderConc: the calls run concurrently on *)
(* an exchange whose prices stay as they are.                               *)

OrderPrices == {1, 2}
OrderSymbols == {"BTCUSDT"}

OrderInputs ==
    {Order(symbol, side, OrderTypeMarket, quantity, 0) :
        symbol \in OrderSymbols, side \in {OrderSideBuy, OrderSideSell},
        quantity \in 0..MaxOrderQty}
    \cup
    {Order(t[1], t[2], OrderTypeLimit, t[3], t[4]) :
        t \in OrderSymbols \X {OrderSideBuy, OrderSideSell}
              \X (0..MaxOrderQty) \X OrderPrices}

OrderWallet == NewManager([a \in {"USDT", "BTC"} |-> IF a = "USDT" THEN 4004 ELSE 2])

InitOrder ==
    /\ \E quoted \in SUBSET OrderSymbols, p \in OrderPrices :
          exchange = NewVirtualExchange([symbol \in quoted |-> p])
    /\ orders = [g \in Goroutines |-> NoOrder]
    /\ placing = [g \in Goroutines |-> NotPlacing]
    /\ balances = OrderWallet
    /\ walletOp = Call("NewManager", NoErr)
    /\ walletArgs = NoArgs
    /\ walletPrev = NoArgs
    /\ NoGoroutines

InCall(g) == placing[g].pc \notin {"idle", "returned"}

\* PlaceOrder returns err
Returns(g, err) == [placing EXCEPT ![g].pc = "returned", ![g].err = err]

\* PlaceOrder is called by g with order o; validateAndLockOrder asks the
\* exchange for the current price when the order is a market Buy
Called(g, o) ==
    LET market == o.Side = OrderSideBuy /\ o.Type = OrderTypeMarket
        found == o.Symbol \in DOMAIN exchange.prices
    IN  /\ placing[g].pc = "idle"
        /\ \A k \in 1..(g - 1) : placing[k].pc # "idle"
        /\ orders' = [orders EXCEPT ![g] =
                         IF market /\ found
                         THEN [o EXCEPT !.Price = exchange.prices[o.Symbol]]
                         ELSE o]
        /\ placing' = [placing EXCEPT
                          ![g].pc = IF market /\ ~found THEN "returned" ELSE "check",
                          ![g].err = IF market /\ ~found THEN ErrValidation ELSE NoErr,
                          ![g].before = balances]
        /\ UNCHANGED <<balances, positions, exchange, notOrder>>

\* a caller calls PlaceOrder while no other call of it is under way
OrderCall ==
    \E g \in Goroutines, o \in OrderInputs :
        /\ \A k \in Goroutines : ~InCall(k)
        /\ Called(g, o)

\* a caller calls PlaceOrder, whatever the other callers do
OrderCallConcurrently ==
    \E g \in Goroutines, o \in OrderInputs : Called(g, o)

\* validateAndLockOrder: s.wallet.HasSufficientBalance
OrderCheck ==
    \E g \in Goroutines :
        /\ placing[g].pc = "check"
        /\ placing' = IF HasSufficientBalance(balances, LockedAsset(orders[g]),
                                              LockedAmount(orders[g]))
                      THEN [placing EXCEPT ![g].pc = "lock"]
                      ELSE Returns(g, ErrValidation)
        /\ UNCHANGED <<balances, positions, exchange, orders, notOrder>>

\* validateAndLockOrder: s.wallet.Lock
OrderLock ==
    \E g \in Goroutines :
        LET r == Lock(balances, LockedAsset(orders[g]), LockedAmount(orders[g]))
        IN  /\ placing[g].pc = "lock"
            /\ balances' = r.balances
            /\ placing' = IF r.err = NoErr
                          THEN [placing EXCEPT ![g].pc = "exchange",
                                               ![g].held = LockedAmount(orders[g])]
                          ELSE Returns(g, ErrValidation)
            /\ UNCHANGED <<positions, exchange, orders, notOrder>>

\* s.exchange.PlaceOrder
OrderExchange ==
    \E g \in Goroutines :
        LET r == ExchangePlaceOrder(exchange, orders[g])
        IN  /\ placing[g].pc = "exchange"
            /\ orders' = [orders EXCEPT ![g] = r.order]
            /\ placing' = [placing EXCEPT ![g].pc = IF r.err = NoErr THEN "status"
                                                    ELSE "unlock"]
            /\ UNCHANGED <<balances, positions, exchange, notOrder>>

\* the exchange failed: s.unlockOrderBalance, and PlaceOrder returns
OrderUnlock ==
    \E g \in Goroutines :
        /\ placing[g].pc = "unlock"
        /\ balances' = unlockOrderBalance(balances, orders[g])
        /\ placing' = [Returns(g, ErrPlace) EXCEPT
                          ![g].held = IF balances' = balances THEN @ ELSE 0]
        /\ UNCHANGED <<positions, exchange, orders, notOrder>>

\* executedOrder.Status == domain.OrderStatusFilled, read without the
\* exchange's mutex: a limit order that simulatePriceUpdates has filled by
\* then is read while fillOrder may still be writing it, so FilledQty and
\* AvgPrice are seen as they were or as fillOrder sets them
OrderStatus ==
    \E g \in Goroutines :
        /\ placing[g].pc = "status"
        /\ IF orders[g].Status = OrderStatusFilled
           THEN \E fq \in IF orders[g].Type = OrderTypeLimit
                          THEN {0, orders[g].FilledQty} ELSE {orders[g].FilledQty},
                   ap \in IF orders[g].Type = OrderTypeLimit
                          THEN {0, orders[g].AvgPrice} ELSE {orders[g].AvgPrice} :
                   placing' = [placing EXCEPT
                       ![g].pc = "transfer",
                       ![g].seen = [orders[g] EXCEPT !.FilledQty = fq,
                                                     !.AvgPrice = ap]]
           ELSE placing' = Returns(g, NoErr)
        /\ UNCHANGED <<balances, positions, exchange, orders, notOrder>>

\* settleOrder: s.wallet.Transfer
OrderTransfer ==
    \E g \in Goroutines :
        LET r == SettleTransfer(balances, placing[g].seen)
        IN  /\ placing[g].pc = "transfer"
            /\ balances' = r.balances
            /\ placing' = IF r.err # NoErr THEN Returns(g, ErrSettle)
                          ELSE [placing EXCEPT
                                   ![g].pc = IF orders[g].Side = OrderSideBuy
                                             THEN "fee" ELSE "position",
                                   ![g].held = 0]
            /\ UNCHANGED <<positions, exchange, orders, notOrder>>

\* settleOrder, a Buy: s.wallet.Credit(quoteAsset, -(fee))
OrderFee ==
    \E g \in Goroutines :
        /\ placing[g].pc = "fee"
        /\ balances' = SettleFee(balances, placing[g].seen).balances
        /\ placing' = [placing EXCEPT ![g].pc = "position"]
        /\ UNCHANGED <<positions, exchange, orders, notOrder>>

\* settleOrder: s.portfolio.UpdatePosition, and PlaceOrder returns
OrderPosition ==
    \E g \in Goroutines :
        /\ placing[g].pc = "position"
        /\ positions' = SettlePosition(positions, placing[g].seen)
        /\ placing' = Returns(g, NoErr)
        /\ UNCHANGED <<balances, exchange, orders, notOrder>>

\* Service.CancelOrder with the ID of an order that PlaceOrder has returned
OrderCancel ==
    \E g \in Goroutines :
        /\ placing[g].pc = "returned" /\ placing[g].err = NoErr
        /\ orders[g].stored
        /\ orders' = [orders EXCEPT ![g] = ExchangeCancelOrder(orders[g]).order]
        /\ UNCHANGED <<balances, positions, exchange, placing, notOrder>>

\* simulatePriceUpdates, a tick: updatePrices, then checkLimitOrders. The
\* random walk moves a price by up to 0.5% a tick; the prices of the model
\* are those it reaches over ticks, a tick keeping the price or moving it.
Tick ==
    /\ exchange.ticking
    /\ \E p \in OrderPrices :
          LET ve == [exchange EXCEPT !.prices = [symbol \in DOMAIN @ |-> p]]
          IN  /\ exchange' = ve
              /\ orders' = checkLimitOrders(ve, orders)
    /\ UNCHANGED <<balances, positions, placing, notOrder>>

\* simulatePriceUpdates returns on closeCh
TickStop ==
    /\ exchange.ticking /\ exchange.closed
    /\ exchange' = [exchange EXCEPT !.ticking = FALSE]
    /\ UNCHANGED <<balances, positions, orders, placing, notOrder>>

\* VirtualExchange.Close
ExchangeClose ==
    /\ ~exchange.closed
    /\ exchange' = [exchange EXCEPT !.closed = TRUE]
    /\ UNCHANGED <<balances, positions, orders, placing, notOrder>>

NextOrder ==
    \/ OrderCall \/ OrderCheck \/ OrderLock \/ OrderExchange \/ OrderUnlock
    \/ OrderStatus \/ OrderTransfer \/ OrderFee \/ OrderPosition \/ OrderCancel
    \/ Tick \/ TickStop \/ ExchangeClose

InitSpecOrder == InitOrder /\ InitPortfolio /\ NoEngine /\ NoStrategy /\ NoCollect

SpecOrder == InitSpecOrder /\ [][NextOrder]_vars

\* a call of PlaceOrder that is under way goes on, and the exchange's
\* ticker fires while simulatePriceUpdates runs
OrderSteps ==
    \/ OrderCheck \/ OrderLock \/ OrderExchange \/ OrderUnlock
    \/ OrderStatus \/ OrderTransfer \/ OrderFee \/ OrderPosition

SpecOrderFair == SpecOrder /\ WF_vars(OrderSteps) /\ WF_vars(Tick)

NextOrderConc ==
    \/ OrderCallConcurrently \/ OrderCheck \/ OrderLock \/ OrderExchange
    \/ OrderUnlock \/ OrderStatus \/ OrderTransfer \/ OrderFee \/ OrderPosition

SpecOrderConc == InitSpecOrder /\ [][NextOrderConc]_vars


C39_FeeChargedOnce ==
    [][\A g \in Goroutines :
          (/\ placing[g].pc = "position" /\ placing'[g].pc = "returned"
           /\ orders[g].Side = OrderSideBuy /\ orders[g].Type = OrderTypeMarket)
          => LET p == orders[g].AvgPrice
                 q == orders[g].FilledQty
                 base == baseAsset(orders[g].Symbol)
             IN  /\ balances'[quoteAsset].Total =
                        placing[g].before[quoteAsset].Total - (p * q * 1000 + p * q)
                 /\ balances'[base].Free = placing[g].before[base].Free + q
                 /\ balances'[quoteAsset].Free >= 0]_vars


\* C40: whatever the interleaving of concurrent PlaceOrder calls on one
\* wallet, HasSufficientBalance followed by Lock never locks more than was
\* free: the lock step leaves free at zero or above, and two orders that
\* each need more than half of the free balance never both pass
\* validateAndLockOrder.
C40_NeverLocksMoreThanFree ==
    /\ [][\A g \in Goroutines :
             (placing[g].pc = "lock" /\ placing'[g].pc = "exchange")
             => LET asset == LockedAsset(orders[g])
                IN  /\ LockedAmount(orders[g]) <= balances[asset].Free
                    /\ balances'[asset].Free >= 0]_vars
    /\ [](\A g, h \in Goroutines :
             (/\ g # h
              /\ placing[g].held > 0 /\ placing[h].held > 0
              /\ LockedAsset(orders[g]) = LockedAsset(orders[h]))
             => ~(/\ 2 * LockedAmount(orders[g]) > OrderWallet[LockedAsset(orders[g])].Free
                  /\ 2 * LockedAmount(orders[h]) > OrderWallet[LockedAsset(orders[h])].Free))

\* Two Buy orders that each need all of the free USDT have both passed
\* HasSufficientBalance; one has locked the amount and the other is about
\* to call Lock.
C40_Witness ==
    \E g, h \in Goroutines :
        /\ g # h
        /\ orders[g].Side = OrderSideBuy /\ orders[h].Side = OrderSideBuy
        /\ LockedAmount(orders[g]) = 4004 /\ LockedAmount(orders[h]) = 4004
        /\ placing[g].pc = "exchange" /\ placing[g].held = 4004
        /\ placing[h].pc = "lock"
        /\ balances[quoteAsset].Free = 0 /\ balances[quoteAsset].Locked = 4004


\* C38: the funds PlaceOrder has locked for an order are released in the end
\* once the order has a terminal status: Filled at placement, Filled later
\* by the exchange's check of the limit orders, Cancelled through
\* CancelOrder, or Rejected.
C38_LockedFundsReleased ==
    \A g \in Goroutines :
        (/\ placing[g].held > 0
         /\ orders[g].Status \in {OrderStatusFilled, OrderStatusCancelled,
                                  OrderStatusRejected})
        ~> (placing[g].held = 0)

====
